---- MODULE Spec2Model ----
(***************************************************************************)
(* Model of the search system: parser -> posting chunks -> multi-way merge *)
(* -> blockwise VarByte index (lexicon, page table, collection stats) ->   *)
(* InvertedList cursors -> DAAT engines (AND, MaxScore OR, Block-Max WAND).*)
(*                                                                         *)
(* Conventions.                                                            *)
(*  - A term is a number of Terms; the numeric order stands for the        *)
(*    lexicographic order of the term strings (1 = "a"/"alpha",            *)
(*    2 = "b"/"beta", 3 = "c").  NoTerm (0) stands for the empty string.   *)
(*  - A posting line "term docID tf" is the tuple <<term, docID, tf>>.     *)
(*  - Python lists are sequences; an index i of the source is the element  *)
(*    i + 1 of the sequence.  Dicts are functions on their key set.        *)
(*  - Floats are fixed-point numbers: a score or an idf s stands for       *)
(*    s / 10^5.  avg_len is the exact fraction <<total_len, total_docs>>.  *)
(***************************************************************************)
EXTENDS Integers, Sequences, FiniteSets, TLC

\* ------------------------------------------------------------------ bounds

MaxDocs == 3
MaxBlockSize == 2
MaxChunkSize == 3
MaxK == 2
MaxOvershoot == 2
MaxLen == 2
MaxCapacity == 2
MaxCalls == 5
MaxQueries == 3
MaxChunks == 2
MaxLines == 2
MaxCorpusLines == 3
MaxMaxDocs == 2

Terms == {1, 2, 3}
NoTerm == 0

\* ----------------------------------------------------------- small helpers

Put(f, k, v) == [x \in (DOMAIN f) \cup {k} |-> IF x = k THEN v ELSE f[x]]

Last(s) == s[Len(s)]

Min2(a, b) == IF a <= b THEN a ELSE b

SetMax(S) == CHOOSE x \in S : \A y \in S : y <= x

SetMin(S) == CHOOSE x \in S : \A y \in S : x <= y

RECURSIVE SeqSum(_)
SeqSum(s) == IF s = <<>> THEN 0 ELSE Head(s) + SeqSum(Tail(s))

\* ------------------------------------------------- shared/compression.py

RECURSIVE EncodeNumber_MostSignificantFirst(_)
EncodeNumber_MostSignificantFirst(num) ==
    LET byte == num % 128
        rest == num \div 128
    IN  IF rest # 0 THEN EncodeNumber_MostSignificantFirst(rest) \o <<byte + 128>>
        ELSE <<byte>>

\* The bytes of one integer: 7-bit groups, least significant first, the high
\* bit set on every byte but the last.
RECURSIVE EncodeNumber(_)
EncodeNumber(num) ==
    LET byte == num % 128
        rest == num \div 128
    IN  IF rest # 0 THEN <<byte + 128>> \o EncodeNumber(rest) ELSE <<byte>>

RECURSIVE varbyte_encode(_)
varbyte_encode(numbers) ==
    IF numbers = <<>> THEN <<>>
    ELSE EncodeNumber(Head(numbers)) \o varbyte_encode(Tail(numbers))

RECURSIVE DecodeLoop_ShiftByEight(_, _, _, _)
DecodeLoop_ShiftByEight(encoded_bytes, i, num, shift) ==
    IF i > Len(encoded_bytes) THEN <<>>
    ELSE LET byte == encoded_bytes[i]
             acc == num + (byte % 128) * (2 ^ shift)
         IN  IF byte >= 128
             THEN DecodeLoop_ShiftByEight(encoded_bytes, i + 1, acc, shift + 8)
             ELSE <<acc>> \o DecodeLoop_ShiftByEight(encoded_bytes, i + 1, 0, 0)

RECURSIVE DecodeLoop_PartialEmitted(_, _, _, _)
DecodeLoop_PartialEmitted(encoded_bytes, i, num, shift) ==
    IF i > Len(encoded_bytes) THEN (IF shift > 0 THEN <<num>> ELSE <<>>)
    ELSE LET byte == encoded_bytes[i]
             acc == num + (byte % 128) * (2 ^ shift)
         IN  IF byte >= 128
             THEN DecodeLoop_PartialEmitted(encoded_bytes, i + 1, acc, shift + 7)
             ELSE <<acc>> \o DecodeLoop_PartialEmitted(encoded_bytes, i + 1, 0, 0)

\* The decoder's loop over encoded_bytes[i..]: num and shift are its
\* accumulators; a value still being accumulated at the end is dropped.
RECURSIVE DecodeLoop(_, _, _, _)
DecodeLoop(encoded_bytes, i, num, shift) ==
    IF i > Len(encoded_bytes) THEN <<>>
    ELSE LET byte == encoded_bytes[i]
             acc == num + (byte % 128) * (2 ^ shift)
         IN  IF byte >= 128
             THEN DecodeLoop(encoded_bytes, i + 1, acc, shift + 7)
             ELSE <<acc>> \o DecodeLoop(encoded_bytes, i + 1, 0, 0)

varbyte_decode(encoded_bytes) == DecodeLoop(encoded_bytes, 1, 0, 0)

\* --------------------------------------------------------- parser/parser.py

\* The distinct tokens of a text in order of first occurrence (the insertion
\* order of the frequency dict).
RECURSIVE FirstOccurrences(_, _)
FirstOccurrences(tokens, seen) ==
    IF tokens = <<>> THEN <<>>
    ELSE IF Head(tokens) \in seen THEN FirstOccurrences(Tail(tokens), seen)
    ELSE <<Head(tokens)>> \o FirstOccurrences(Tail(tokens), seen \cup {Head(tokens)})

Occurrences(tokens, t) == Cardinality({i \in 1..Len(tokens) : tokens[i] = t})

\* parse_document: <<term, tf>> pairs in dict order.
parse_document(text) ==
    LET keys == FirstOccurrences(text, {})
    IN  [i \in 1..Len(keys) |-> <<keys[i], Occurrences(text, keys[i])>>]

\* The sort key of write_chunk: (term, int(docID)).
KeyLeq(p, q) == p[1] < q[1] \/ (p[1] = q[1] /\ p[2] <= q[2])

\* list.sort is stable: x goes behind every element whose key is <= its own.
RECURSIVE InsertSorted(_, _)
InsertSorted(sorted, x) ==
    IF sorted = <<>> THEN <<x>>
    ELSE IF KeyLeq(Head(sorted), x)
         THEN <<Head(sorted)>> \o InsertSorted(Tail(sorted), x)
         ELSE <<x>> \o sorted

RECURSIVE SortPostings(_)
SortPostings(postings) ==
    IF postings = <<>> THEN <<>>
    ELSE InsertSorted(SortPostings(SubSeq(postings, 1, Len(postings) - 1)), Last(postings))

\* A writer that leaves the buffer in the order of arrival.
write_chunk_Unsorted(postings) == postings

\* write_chunk: the lines of the chunk file written for the buffer.
write_chunk(postings) == SortPostings(postings)

DocPostings(doc) ==
    LET freqs == parse_document(doc.text)
    IN  [i \in 1..Len(freqs) |-> <<freqs[i][1], doc.doc_id, freqs[i][2]>>]

\* The document loop of run_parser from line i on (no max_docs, no subset):
\* the buffer is flushed after a document once it holds chunk_size postings,
\* and whatever is left is flushed at the end.
RECURSIVE ParseLoop(_, _, _, _)
ParseLoop(corpus, i, postings, chunk_size) ==
    IF i > Len(corpus)
    THEN IF postings # <<>> THEN <<write_chunk(postings)>> ELSE <<>>
    ELSE LET buffered == postings \o DocPostings(corpus[i])
         IN  IF Len(buffered) >= chunk_size
             THEN <<write_chunk(buffered)>> \o ParseLoop(corpus, i + 1, <<>>, chunk_size)
             ELSE ParseLoop(corpus, i + 1, buffered, chunk_size)

\* The chunk files chunk0.txt, chunk1.txt, ... of one parser run.
run_parser(corpus, chunk_size) == ParseLoop(corpus, 1, <<>>, chunk_size)

\* run_parser as a process over the lines of the dataset file.  A line is a
\* document (docID, TAB, text), a blank line, a line without a TAB, or a line
\* whose docID field is no integer; max_docs = 0 stands for None; no subset
\* file is given.  line is the number of lines the loop has consumed.
NoParser == [dataset |-> <<>>, chunk_size |-> 0, max_docs |-> 0, postings |-> <<>>,
             chunk_id |-> 0, doc_count |-> 0, line |-> 0, state |-> ""]

ParserStart(dataset, chunk_size, max_docs) ==
    [dataset |-> dataset, chunk_size |-> chunk_size, max_docs |-> max_docs,
     postings |-> <<>>, chunk_id |-> 0, doc_count |-> 0, line |-> 0, state |-> "reading"]

\* A loop body that leaves the loop at the max_docs limit with an empty
\* buffer.
ParseDoc_DropsAtLimit(p, doc) ==
    LET buffered == p.postings \o DocPostings(doc)
        counted == [p EXCEPT !.postings = buffered, !.doc_count = @ + 1, !.line = @ + 1]
    IN  IF p.max_docs # 0 /\ counted.doc_count >= p.max_docs
        THEN [parser |-> [counted EXCEPT !.postings = <<>>, !.state = "flushing"],
              flushed |-> FALSE]
        ELSE IF Len(buffered) >= p.chunk_size
        THEN [parser |-> [counted EXCEPT !.postings = <<>>, !.chunk_id = @ + 1],
              flushed |-> TRUE]
        ELSE [parser |-> counted, flushed |-> FALSE]

\* The loop body for a document: its postings are buffered and counted, the
\* loop is left at the max_docs limit, and otherwise a full buffer is
\* written; flushed tells whether write_chunk was called.
ParseDoc(p, doc) ==
    LET buffered == p.postings \o DocPostings(doc)
        counted == [p EXCEPT !.postings = buffered, !.doc_count = @ + 1, !.line = @ + 1]
    IN  IF p.max_docs # 0 /\ counted.doc_count >= p.max_docs
        THEN [parser |-> [counted EXCEPT !.state = "flushing"], flushed |-> FALSE]
        ELSE IF Len(buffered) >= p.chunk_size
        THEN [parser |-> [counted EXCEPT !.postings = <<>>, !.chunk_id = @ + 1],
              flushed |-> TRUE]
        ELSE [parser |-> counted, flushed |-> FALSE]

\* ------------------------------------------------- indexer: merge_postings

\* Heap entries are (term, docID, posting, file index) tuples compared
\* lexicographically; the posting text differs from its neighbour only in tf.
HeapEntry(posting, i) == [term |-> posting[1], doc_id |-> posting[2],
                          posting |-> posting, file_idx |-> i]

\* A heap ordered by the file index before the key.
HeapLess_ByFile(a, b) == a.file_idx < b.file_idx

HeapLess(a, b) ==
    \/ a.term < b.term
    \/ a.term = b.term /\ a.doc_id < b.doc_id
    \/ a.term = b.term /\ a.doc_id = b.doc_id /\ a.posting[3] < b.posting[3]
    \/ a.term = b.term /\ a.doc_id = b.doc_id /\ a.posting[3] = b.posting[3]
       /\ a.file_idx < b.file_idx

HeapMin(min_heap) == CHOOSE e \in min_heap : \A o \in min_heap \ {e} : HeapLess(e, o)

\* The merge loop: nread[i] lines of chunk i have been read.
RECURSIVE MergeLoop(_, _, _)
MergeLoop(chunk_files, nread, min_heap) ==
    IF min_heap = {} THEN <<>>
    ELSE LET e == HeapMin(min_heap)
             i == e.file_idx
             rest == min_heap \ {e}
             pushed == IF nread[i] < Len(chunk_files[i])
                       THEN rest \cup {HeapEntry(chunk_files[i][nread[i] + 1], i)}
                       ELSE rest
         IN  <<e.posting>> \o MergeLoop(chunk_files, [nread EXCEPT ![i] = @ + 1], pushed)

\* The whole stream the generator yields for the chunk files.
merge_postings(chunk_files) ==
    MergeLoop(chunk_files,
              [i \in 1..Len(chunk_files) |-> 1],
              {HeapEntry(chunk_files[i][1], i) : i \in 1..Len(chunk_files)})

\* merge_postings as the generator object run_indexer drives.  A line of a
\* chunk file is the sequence of its tokens: three for a posting, none for a
\* blank line or the end of the file.  files_open[i] tells whether the handle
\* of chunk i is open; file_idx is the chunk of the posting last yielded.
NoMerger == [state |-> "", files_open |-> <<>>, nread |-> <<>>, min_heap |-> {},
             file_idx |-> 0, yielded |-> <<>>]

NewMerger == [NoMerger EXCEPT !.state = "created"]

\* chunk_file.readline().strip().split()
ReadLine(chunk_files, nread, i) ==
    IF nread[i] < Len(chunk_files[i]) THEN chunk_files[i][nread[i] + 1] ELSE <<>>

\* The first line of every chunk is pushed; term, doc_id, *_ = posting.split()
\* raises ValueError on a line of fewer than two tokens.
RECURSIVE HeapInit(_, _, _)
HeapInit(chunk_files, i, m) ==
    IF i > Len(chunk_files) THEN m
    ELSE LET posting == ReadLine(chunk_files, m.nread, i)
             read == [m EXCEPT !.nread[i] = @ + 1]
         IN  IF Len(posting) < 2 THEN [read EXCEPT !.state = "raised"]
             ELSE HeapInit(chunk_files, i + 1,
                           [read EXCEPT !.min_heap = @ \cup {HeapEntry(posting, i)}])

\* The head of the while loop: the smallest tuple is popped and yielded, and
\* with the heap empty the chunk files are closed and the generator returns.
PopAndYield(m) ==
    IF m.state = "raised" THEN m
    ELSE IF m.min_heap = {}
    THEN [m EXCEPT !.state = "returned",
                   !.files_open = [i \in DOMAIN m.files_open |-> FALSE]]
    ELSE LET e == HeapMin(m.min_heap)
         IN  [m EXCEPT !.state = "suspended",
                       !.min_heap = m.min_heap \ {e},
                       !.file_idx = e.file_idx,
                       !.yielded = Append(m.yielded, e.posting)]

\* The first next(generator): the chunk files are opened, the heap is filled
\* and the loop runs to its first yield.
MergerStart(m, chunk_files) ==
    LET opened == [m EXCEPT !.files_open = [i \in 1..Len(chunk_files) |-> TRUE],
                            !.nread = [i \in 1..Len(chunk_files) |-> 0]]
    IN  PopAndYield(HeapInit(chunk_files, 1, opened))

\* A resumption that reads no line: the chunk the posting came from is not
\* read on.
MergerResume_NoRefill(m, chunk_files) == PopAndYield(m)

\* A later next(generator): the line after the posting yielded is read from
\* the same chunk and pushed unless it is empty, and the loop goes on.
MergerResume(m, chunk_files) ==
    LET next_posting == ReadLine(chunk_files, m.nread, m.file_idx)
        read == [m EXCEPT !.nread[m.file_idx] = @ + 1]
    IN  IF next_posting = <<>> THEN PopAndYield(read)
        ELSE IF Len(next_posting) < 2 THEN [read EXCEPT !.state = "raised"]
        ELSE PopAndYield([read EXCEPT !.min_heap =
                                  @ \cup {HeapEntry(next_posting, m.file_idx)}])

\* generator.close(), or the generator dropped by a consumer that failed:
\* GeneratorExit is raised at the yield and nothing of the body runs.
MergerClose(m) == [m EXCEPT !.state = "closed"]

\* -------------------------------------------------- indexer/indexer.py

\* round(10^5 * ln n) for n = 1..32: math.log on the arguments the model meets.
LnTable == <<0, 69315, 109861, 138629, 160944, 179176, 194591, 207944,
             219722, 230259, 239790, 248491, 256495, 263906, 270805, 277259,
             283321, 289037, 294444, 299573, 304452, 309104, 313549, 317805,
             321888, 325810, 329584, 333220, 336730, 340120, 343399, 346574>>

\* log((N - df + 0.5) / (df + 0.5) + 1.0) = ln((2N + 2) / (2df + 1)).
compute_idf(df, N) == LnTable[2 * N + 2] - LnTable[2 * df + 1]

\* idf * (freq * (k1 + 1)) / (freq + k1 * (1 - b + b * doc_len / avg_len)) with
\* k1 = 1.2, b = 0.75 and avg_len = avg_len[1] / avg_len[2]; numerator and
\* denominator are both multiplied by 10 * avg_len[1].
BM25(idf, freq, doc_len, avg_len) ==
    LET numerator == 22 * freq * avg_len[1]
        denominator == 10 * freq * avg_len[1] + 3 * avg_len[1]
                       + 9 * doc_len * avg_len[2]
    IN  IF denominator # 0 THEN (idf * numerator) \div denominator ELSE 0

\* doc_meta.get("length", 1) on the page table entry of doc_id.
DocLen(page_table, doc_id) ==
    IF doc_id \in DOMAIN page_table THEN page_table[doc_id].length ELSE 1

\* An encoder that stores every docID absolute.
encode_postings_NoGaps(doc_ids, freqs) ==
    IF doc_ids = <<>> THEN <<(<<>>), (<<>>)>>
    ELSE <<varbyte_encode(doc_ids), varbyte_encode(freqs)>>

\* encode_postings: the first docID absolute, the others as gaps.
encode_postings(doc_ids, freqs) ==
    IF doc_ids = <<>> THEN <<(<<>>), (<<>>)>>
    ELSE LET gaps == [i \in 1..Len(doc_ids) |->
                         IF i = 1 THEN doc_ids[1] ELSE doc_ids[i] - doc_ids[i - 1]]
         IN  <<varbyte_encode(gaps), varbyte_encode(freqs)>>

\* A block that counts only its docID segment.
BytesBlock_DocIdsOnly(bytes_doc_ids, bytes_freqs) == bytes_doc_ids

\* bytes_block of write_postings.
BytesBlock(bytes_doc_ids, bytes_freqs) == bytes_doc_ids + bytes_freqs

\* The scoring loop of write_postings over one block.
RECURSIVE BlockMaxLoop(_, _, _, _, _, _, _)
BlockMaxLoop(block_doc_ids, block_freqs, j, page_table, avg_len, idf, block_max_score) ==
    IF j > Len(block_doc_ids) THEN block_max_score
    ELSE LET doc_len == DocLen(page_table, block_doc_ids[j])
             score == BM25(idf, block_freqs[j], doc_len, avg_len)
         IN  BlockMaxLoop(block_doc_ids, block_freqs, j + 1, page_table, avg_len, idf,
                          IF score > block_max_score THEN score ELSE block_max_score)

\* The block loop of write_postings from posting index i on: acc carries
\* blocks_meta, the bytes written, current_offset and total_bytes.
RECURSIVE WriteBlocks(_, _, _, _, _, _, _, _)
WriteBlocks(i, acc, block_size, doc_ids, freqs, page_table, avg_len, idf) ==
    IF i >= Len(doc_ids) THEN acc
    ELSE LET hi == Min2(i + block_size, Len(doc_ids))
             block_doc_ids == SubSeq(doc_ids, i + 1, hi)
             block_freqs == SubSeq(freqs, i + 1, hi)
             encoded == encode_postings(block_doc_ids, block_freqs)
             bytes_doc_ids == Len(encoded[1])
             bytes_freqs == Len(encoded[2])
             bytes_block == BytesBlock(bytes_doc_ids, bytes_freqs)
             block_meta == [offset |-> acc.current_offset,
                            bytes_block |-> bytes_block,
                            bytes_doc_ids |-> bytes_doc_ids,
                            bytes_freqs |-> bytes_freqs,
                            last_doc_id |-> Last(block_doc_ids),
                            block_max_score |->
                                BlockMaxLoop(block_doc_ids, block_freqs, 1,
                                             page_table, avg_len, idf, 0)]
         IN  WriteBlocks(i + block_size,
                         [blocks_meta |-> Append(acc.blocks_meta, block_meta),
                          written |-> acc.written \o encoded[1] \o encoded[2],
                          current_offset |-> acc.current_offset + bytes_block,
                          total_bytes |-> acc.total_bytes + bytes_block],
                         block_size, doc_ids, freqs, page_table, avg_len, idf)

\* write_postings: the index file and the lexicon after the term is written.
write_postings(inverted_index_file, lexicon, block_size, term, offset, doc_ids, freqs, page_table, avg_len) ==
    IF doc_ids = <<>>
    THEN [inverted_index_file |-> inverted_index_file, lexicon |-> lexicon]
    ELSE LET N == Cardinality(DOMAIN page_table)
             df == Len(doc_ids)
             idf == compute_idf(df, N)
             out == WriteBlocks(0, [blocks_meta |-> <<>>, written |-> <<>>,
                                    current_offset |-> offset, total_bytes |-> 0],
                                block_size, doc_ids, freqs, page_table, avg_len, idf)
         IN  [inverted_index_file |-> inverted_index_file \o out.written,
              lexicon |-> Put(lexicon, term,
                              [offset |-> offset,
                               df |-> Len(doc_ids),
                               block_count |-> Len(out.blocks_meta),
                               blocks |-> out.blocks_meta,
                               bytes |-> out.total_bytes])]

\* The locals of run_indexer before the first posting.
IndexerStart ==
    [lexicon |-> <<>>, page_table |-> <<>>, total_len |-> 0, total_docs |-> {},
     avg_len_estimate |-> <<1, 1>>, current_term |-> NoTerm, current_offset |-> 0,
     doc_ids |-> <<>>, freqs |-> <<>>, inverted_index_file |-> <<>>]

PageTableAdd_Overwrite(page_table, doc_id, freq) ==
    Put(page_table, doc_id, [length |-> freq])

\* page_table[doc_id]["length"] += freq on the defaultdict: a missing entry
\* starts with length 0.
PageTableAdd(page_table, doc_id, freq) ==
    Put(page_table, doc_id,
        [length |-> (IF doc_id \in DOMAIN page_table
                     THEN page_table[doc_id].length ELSE 0) + freq])

\* One iteration of run_indexer's loop over the merged stream.
IndexPosting(ix, posting, block_size) ==
    LET term == posting[1]
        doc_id == posting[2]
        freq == posting[3]
        page_table == PageTableAdd(ix.page_table, doc_id, freq)
        total_len == ix.total_len + freq
        total_docs == ix.total_docs \cup {doc_id}
        avg_len_estimate == IF Cardinality(total_docs) > 0
                            THEN <<total_len, Cardinality(total_docs)>>
                            ELSE ix.avg_len_estimate
        flush == ix.current_term # NoTerm /\ term # ix.current_term
        out == IF flush
               THEN write_postings(ix.inverted_index_file, ix.lexicon, block_size,
                                   ix.current_term, ix.current_offset, ix.doc_ids,
                                   ix.freqs, page_table, avg_len_estimate)
               ELSE [inverted_index_file |-> ix.inverted_index_file,
                     lexicon |-> ix.lexicon]
    IN  [lexicon |-> out.lexicon,
         page_table |-> page_table,
         total_len |-> total_len,
         total_docs |-> total_docs,
         avg_len_estimate |-> avg_len_estimate,
         current_term |-> term,
         current_offset |-> IF flush
                            THEN ix.current_offset + out.lexicon[ix.current_term].bytes
                            ELSE ix.current_offset,
         doc_ids |-> Append(IF flush THEN <<>> ELSE ix.doc_ids, doc_id),
         freqs |-> Append(IF flush THEN <<>> ELSE ix.freqs, freq),
         inverted_index_file |-> out.inverted_index_file]

\* The flush of the last term once the stream is exhausted.
IndexFlushLast(ix, block_size) ==
    IF ix.current_term # NoTerm
    THEN LET out == write_postings(ix.inverted_index_file, ix.lexicon, block_size,
                                   ix.current_term, ix.current_offset, ix.doc_ids,
                                   ix.freqs, ix.page_table, ix.avg_len_estimate)
         IN  [ix EXCEPT !.lexicon = out.lexicon,
                        !.inverted_index_file = out.inverted_index_file]
    ELSE ix

CollectionStats_CountTerms(ix) ==
    LET total_docs_count == Cardinality(DOMAIN ix.lexicon)
    IN  [total_docs |-> total_docs_count,
         avg_len |-> IF total_docs_count > 0
                     THEN <<ix.total_len, total_docs_count>> ELSE <<1, 1>>]

\* collection_stats as run_indexer records them.
CollectionStats(ix) ==
    LET total_docs_count == Cardinality(ix.total_docs)
    IN  [total_docs |-> total_docs_count,
         avg_len |-> IF total_docs_count > 0
                     THEN <<ix.total_len, total_docs_count>> ELSE <<1, 1>>]

RECURSIVE IndexStream(_, _, _)
IndexStream(ix, stream, block_size) ==
    IF stream = <<>> THEN IndexFlushLast(ix, block_size)
    ELSE IndexStream(IndexPosting(ix, Head(stream), block_size), Tail(stream), block_size)

\* What run_indexer leaves on disk for the chunk files.
run_indexer(chunk_files, block_size) ==
    LET ix == IndexStream(IndexerStart, merge_postings(chunk_files), block_size)
    IN  [inverted_index_file |-> ix.inverted_index_file,
         lexicon |-> ix.lexicon,
         page_table |-> ix.page_table,
         collection_stats |-> CollectionStats(ix)]

\* ------------------------------------------------------------- the inputs

\* Document texts: one or two tokens (the order of the tokens in a text only
\* decides the order of the postings before the chunk is sorted).
Texts == {<<t>> : t \in Terms} \cup {p \in Terms \X Terms : p[1] <= p[2]}

\* How the corpus lines are numbered: consecutively, with gaps that need two
\* bytes, in descending order, or with a docID occurring on two lines.
Numberings == {"dense", "sparse", "descending", "repeated"}

DocIdOf(numbering, i, n) ==
    CASE numbering = "dense" -> i
      [] numbering = "sparse" -> 1 + 129 * (i - 1)
      [] numbering = "descending" -> n + 1 - i
      [] numbering = "repeated" -> (i + 1) \div 2

MakeCorpus(numbering, texts) ==
    [i \in 1..Len(texts) |-> [doc_id |-> DocIdOf(numbering, i, Len(texts)),
                              text |-> texts[i]]]

\* The corpora: up to MaxDocs documents; the empty corpus leaves no chunk file.
TextLists == UNION {[1..n -> Texts] : n \in 0..MaxDocs}

\* ------------------------------------------------ query/inverted_list.py

\* 1 << 62 in the source; the model's integers are 32 bits wide, and 2^30
\* likewise exceeds every docID.
INF_DOCID == 1073741824

\* decode_postings: the gaps are summed up to absolute docIDs.
RECURSIVE PrefixSums(_, _)
PrefixSums(gaps, before) ==
    IF gaps = <<>> THEN <<>>
    ELSE <<before + Head(gaps)>> \o PrefixSums(Tail(gaps), before + Head(gaps))

\* A decoder that takes the stored numbers for docIDs as they are.
decode_postings_GapsKept(encoded_doc_ids, encoded_freqs) ==
    <<varbyte_decode(encoded_doc_ids), varbyte_decode(encoded_freqs)>>

decode_postings(encoded_doc_ids, encoded_freqs) ==
    <<PrefixSums(varbyte_decode(encoded_doc_ids), 0), varbyte_decode(encoded_freqs)>>

\* file.seek(offset); file.read(n): a read past the end returns what is there.
FileRead(file, offset, n) == SubSeq(file, offset + 1, Min2(offset + n, Len(file)))

load_block(c, block_idx, disk) ==
    IF block_idx < 0 \/ block_idx >= c.block_count
    THEN [c EXCEPT !.curr_block_docIDs = <<>>, !.curr_block_freqs = <<>>]
    ELSE LET block == c.blocks[block_idx + 1]
             encoded_doc_ids == FileRead(disk.inverted_index_file, block.offset,
                                         block.bytes_doc_ids)
             encoded_freqs == FileRead(disk.inverted_index_file,
                                       block.offset + block.bytes_doc_ids,
                                       block.bytes_freqs)
             decoded == decode_postings(encoded_doc_ids, encoded_freqs)
         IN  [c EXCEPT !.curr_block_docIDs = decoded[1],
                       !.curr_block_freqs = decoded[2],
                       !.curr_block_idx = block_idx,
                       !.curr_idx = 0,
                       !.doc_id = IF decoded[1] # <<>> THEN decoded[1][1] ELSE INF_DOCID]

\* InvertedList.__init__ for a term of the lexicon.
InvertedList(term, disk) ==
    LET term_meta == disk.lexicon[term]
        blocks == term_meta.blocks
        block_max_scores == [i \in 1..Len(blocks) |-> blocks[i].block_max_score]
        c0 == [term |-> term,
               N |-> disk.collection_stats.total_docs,
               avg_len |-> disk.collection_stats.avg_len,
               file_closed |-> FALSE,
               blocks |-> blocks,
               block_count |-> Len(blocks),
               block_last_doc_ids |-> [i \in 1..Len(blocks) |-> blocks[i].last_doc_id],
               block_max_scores |-> block_max_scores,
               max_score |-> IF block_max_scores # <<>>
                             THEN SetMax({block_max_scores[i] : i \in 1..Len(blocks)})
                             ELSE 0,
               curr_block_idx |-> 0,
               curr_block_docIDs |-> <<>>,
               curr_block_freqs |-> <<>>,
               curr_idx |-> -1,
               doc_id |-> INF_DOCID,
               df |-> term_meta.df,
               idf |-> compute_idf(term_meta.df, disk.collection_stats.total_docs)]
    IN  IF c0.block_count > 0
        THEN LET c1 == [load_block(c0, 0, disk) EXCEPT !.curr_idx = 0]
             IN  IF c1.curr_block_docIDs # <<>>
                 THEN [c1 EXCEPT !.doc_id = c1.curr_block_docIDs[1]]
                 ELSE c1
        ELSE c0

getBM25(c, freq, doc_len) == BM25(c.idf, freq, doc_len, c.avg_len)

\* A reset that moves the indices but loads no block.
reset_NoLoad(c, disk) == [c EXCEPT !.curr_block_idx = 0, !.curr_idx = 0]

reset(c, disk) ==
    LET c0 == [c EXCEPT !.curr_block_idx = 0]
    IN  IF c0.block_count > 0
        THEN LET c1 == load_block(c0, 0, disk)
             IN  [c1 EXCEPT !.curr_idx = 0, !.doc_id = c1.curr_block_docIDs[1]]
        ELSE [c0 EXCEPT !.curr_idx = -1, !.doc_id = INF_DOCID]

\* bisect.bisect_left(arr, k, lo, hi).
RECURSIVE bisect_left(_, _, _, _)
bisect_left(arr, k, lo, hi) ==
    IF lo < hi
    THEN LET mid == (lo + hi) \div 2
         IN  IF arr[mid + 1] < k THEN bisect_left(arr, k, mid + 1, hi)
                                 ELSE bisect_left(arr, k, lo, mid)
    ELSE lo

\* The exponential probe loop of galloping_search: the i it ends with.
RECURSIVE GallopProbe(_, _, _, _)
GallopProbe(arr, k, i, step) ==
    IF i < Len(arr) /\ arr[i + 1] < k
    THEN GallopProbe(arr, k, i + step, step * 2)
    ELSE i

galloping_search(arr, k, start) ==
    IF arr = <<>> \/ Last(arr) < k THEN Len(arr)
    ELSE LET i == GallopProbe(arr, k, start, 1)
         IN  bisect_left(arr, k, i \div 2, Min2(i, Len(arr)))

\* The inner while of nextGEQ: blocks whose last docID is below k are passed
\* over.  returned tells that nextGEQ returned from inside the loop.
RECURSIVE SkipBlocks(_, _, _)
SkipBlocks(c, k, disk) ==
    IF c.curr_block_idx < c.block_count /\ c.block_last_doc_ids[c.curr_block_idx + 1] < k
    THEN LET c1 == [c EXCEPT !.curr_block_idx = @ + 1]
         IN  IF c1.curr_block_idx >= c1.block_count
             THEN [c |-> [c1 EXCEPT !.doc_id = INF_DOCID], returned |-> TRUE]
             ELSE SkipBlocks(load_block(c1, c1.curr_block_idx, disk), k, disk)
    ELSE [c |-> c, returned |-> FALSE]

\* nextGEQ(k): the cursor after the call; the value returned is its doc_id.
RECURSIVE nextGEQ(_, _, _)
nextGEQ(c, k, disk) ==
    LET skipped == SkipBlocks(c, k, disk)
        c1 == skipped.c
    IN  IF skipped.returned THEN c1
        ELSE IF c1.curr_block_docIDs # <<>> /\ Last(c1.curr_block_docIDs) >= k
        THEN LET idx == galloping_search(c1.curr_block_docIDs, k, c1.curr_idx)
             IN  [c1 EXCEPT !.curr_idx = idx, !.doc_id = c1.curr_block_docIDs[idx + 1]]
        ELSE LET c2 == [c1 EXCEPT !.curr_block_idx = @ + 1]
             IN  IF c2.curr_block_idx >= c2.block_count
                 THEN [c2 EXCEPT !.doc_id = INF_DOCID]
                 ELSE nextGEQ(load_block(c2, c2.curr_block_idx, disk), k, disk)

\* getScore(doc_id): 0 stands for 0.0.  The page table is read from disk,
\* where its keys are the docIDs as strings; str(doc_id) looks them up.
getScore(c, doc_id, disk) ==
    IF c.curr_block_docIDs = <<>> \/ c.curr_block_freqs = <<>> THEN 0
    ELSE IF c.curr_idx < 0 \/ c.curr_idx >= Len(c.curr_block_docIDs) THEN 0
    ELSE IF c.curr_block_docIDs[c.curr_idx + 1] # doc_id THEN 0
    ELSE getBM25(c, c.curr_block_freqs[c.curr_idx + 1], DocLen(disk.page_table, doc_id))

curr_block_max(c) ==
    IF 0 <= c.curr_block_idx /\ c.curr_block_idx < Len(c.block_max_scores)
    THEN c.block_max_scores[c.curr_block_idx + 1]
    ELSE 0

advance_to_next_block(c, disk) ==
    IF c.curr_block_idx + 1 < c.block_count
    THEN load_block(c, c.curr_block_idx + 1, disk)
    ELSE [c EXCEPT !.doc_id = INF_DOCID]

\* ------------------------------------------ query/inverted_list_cache.py

\* The OrderedDict is the sequence of its items, least recently used first;
\* an item holds the term and the reference of the cached cursor.
None == 0

CacheHas(cache, term) == \E i \in 1..Len(cache) : cache[i].term = term

CacheIndex(cache, term) == CHOOSE i \in 1..Len(cache) : cache[i].term = term

RemoveAt(seq, i) == SubSeq(seq, 1, i - 1) \o SubSeq(seq, i + 1, Len(seq))

move_to_end_Stays(cache, term) == cache

move_to_end(cache, term) ==
    LET i == CacheIndex(cache, term) IN Append(RemoveAt(cache, i), cache[i])

InvertedListCache(capacity) ==
    [cache |-> <<>>, capacity |-> capacity, hits |-> 0, misses |-> 0]

\* get: the cache after the call and the value returned.
CacheGet(lc, term) ==
    IF ~CacheHas(lc.cache, term)
    THEN [lc |-> [lc EXCEPT !.misses = @ + 1], value |-> None]
    ELSE [lc |-> [lc EXCEPT !.cache = move_to_end(lc.cache, term), !.hits = @ + 1],
          value |-> lc.cache[CacheIndex(lc.cache, term)].lp]

CachePut_NoEviction(lc, term, inverted_list) ==
    IF CacheHas(lc.cache, term)
    THEN [lc EXCEPT !.cache = move_to_end(lc.cache, term)]
    ELSE [lc EXCEPT !.cache = Append(lc.cache, [term |-> term, lp |-> inverted_list])]

CachePut(lc, term, inverted_list) ==
    IF CacheHas(lc.cache, term)
    THEN [lc EXCEPT !.cache = move_to_end(lc.cache, term)]
    ELSE LET kept == IF Len(lc.cache) >= lc.capacity THEN Tail(lc.cache) ELSE lc.cache
         IN  [lc EXCEPT !.cache = Append(kept, [term |-> term, lp |-> inverted_list])]

\* --------------------------------------------------------- query/query.py

\* The capacity InvertedListCache() is built with.
DefaultCapacity == 10

\* An openList that remembers the terms it did not find.
openList_CachesAbsent(term, mem, disk) ==
    LET got == CacheGet(mem.LIST_CACHE, term)
    IN  IF term \notin DOMAIN disk.lexicon
        THEN [mem |-> [mem EXCEPT !.LIST_CACHE = CachePut(got.lc, term, None)], lp |-> None]
        ELSE IF got.value # None
        THEN [mem |-> [cursors |-> [mem.cursors EXCEPT
                                      ![got.value] = reset(mem.cursors[got.value], disk)],
                       LIST_CACHE |-> got.lc],
              lp |-> got.value]
        ELSE [mem |-> [cursors |-> Append(mem.cursors, InvertedList(term, disk)),
                       LIST_CACHE |-> CachePut(got.lc, term, Len(mem.cursors) + 1)],
              lp |-> Len(mem.cursors) + 1]

\* openList on the session mem = [cursors, LIST_CACHE]: cursors is the store
\* of the InvertedList objects, a reference being the object's position in
\* it.  lp is the reference returned, or None.
openList(term, mem, disk) ==
    LET got == CacheGet(mem.LIST_CACHE, term)
    IN  IF got.value # None
        THEN [mem |-> [cursors |-> [mem.cursors EXCEPT
                                      ![got.value] = reset(mem.cursors[got.value], disk)],
                       LIST_CACHE |-> got.lc],
              lp |-> got.value]
        ELSE IF term \notin DOMAIN disk.lexicon
        THEN [mem |-> [mem EXCEPT !.LIST_CACHE = got.lc], lp |-> None]
        ELSE LET list_pointer == Len(mem.cursors) + 1
             IN  [mem |-> [cursors |-> Append(mem.cursors, InvertedList(term, disk)),
                           LIST_CACHE |-> CachePut(got.lc, term, list_pointer)],
                  lp |-> list_pointer]

\* A closeList that closes the handle of a cached cursor too.
closeList_Cached(lp, mem) ==
    IF lp = None THEN mem ELSE [mem EXCEPT !.cursors[lp].file_closed = TRUE]

\* closeList: the handle is closed unless the cursor's term is a cached key.
closeList(lp, mem) ==
    IF lp = None THEN mem
    ELSE IF CacheHas(mem.LIST_CACHE.cache, mem.cursors[lp].term) THEN mem
    ELSE [mem EXCEPT !.cursors[lp].file_closed = TRUE]

\* The top-k heap is kept as the ascending sequence of its (score, docID)
\* tuples: heap[0] of the source is its first element.
TupleLeq(a, b) == a[1] < b[1] \/ (a[1] = b[1] /\ a[2] <= b[2])

RECURSIVE heappush(_, _)
heappush(heap, item) ==
    IF heap = <<>> THEN <<item>>
    ELSE IF TupleLeq(Head(heap), item) THEN <<Head(heap)>> \o heappush(Tail(heap), item)
    ELSE <<item>> \o heap

heapreplace(heap, item) == heappush(Tail(heap), item)

\* A heap that takes every document offered.
check_push_topk_Unbounded(heap, doc_id, score, k) == heappush(heap, <<score, doc_id>>)

check_push_topk(heap, doc_id, score, k) ==
    IF Len(heap) < k THEN heappush(heap, <<score, doc_id>>)
    ELSE IF score > heap[1][1] THEN heapreplace(heap, <<score, doc_id>>)
    ELSE heap

min_score_in_heap(heap, k) ==
    IF Len(heap) < k \/ heap = <<>> THEN 0 ELSE heap[1][1]

\* sorted(..., key = (-score, docID)) of the heap as (docID, score) pairs.
RankLeq(a, b) == a[2] > b[2] \/ (a[2] = b[2] /\ a[1] <= b[1])

RECURSIVE RankInsert(_, _)
RankInsert(ranked, x) ==
    IF ranked = <<>> THEN <<x>>
    ELSE IF RankLeq(Head(ranked), x) THEN <<Head(ranked)>> \o RankInsert(Tail(ranked), x)
    ELSE <<x>> \o ranked

RECURSIVE Ranked(_)
Ranked(heap) ==
    IF heap = <<>> THEN <<>>
    ELSE RankInsert(Ranked(SubSeq(heap, 1, Len(heap) - 1)),
                    <<Last(heap)[2], Last(heap)[1]>>)

\* lists.sort(key = ...): stable, ascending in key[lp].
RECURSIVE SortInsert(_, _, _)
SortInsert(sorted, lp, key) ==
    IF sorted = <<>> THEN <<lp>>
    ELSE IF key[Head(sorted)] <= key[lp]
         THEN <<Head(sorted)>> \o SortInsert(Tail(sorted), lp, key)
         ELSE <<lp>> \o sorted

RECURSIVE SortLists(_, _)
SortLists(lists, key) ==
    IF lists = <<>> THEN <<>>
    ELSE SortInsert(SortLists(SubSeq(lists, 1, Len(lists) - 1), key), Last(lists), key)

SortByDf(lists, cursors) ==
    IF Len(lists) > 1
    THEN SortLists(lists, [lp \in 1..Len(cursors) |-> cursors[lp].df])
    ELSE lists

\* sort(key = max_score, reverse = True) keeps equal keys in their order.
SortByMaxScore(lists, cursors) ==
    SortLists(lists, [lp \in 1..Len(cursors) |-> 0 - cursors[lp].max_score])

RECURSIVE ActiveLists(_, _)
ActiveLists(lists, cursors) ==
    IF lists = <<>> THEN <<>>
    ELSE IF cursors[Head(lists)].doc_id < INF_DOCID
         THEN <<Head(lists)>> \o ActiveLists(Tail(lists), cursors)
         ELSE ActiveLists(Tail(lists), cursors)

DocIdsOf(lists, cursors) == {cursors[lists[i]].doc_id : i \in 1..Len(lists)}

\* for lp in lists: if lp.doc_id < target: lp.nextGEQ(target)
RECURSIVE AdvanceBelow(_, _, _, _)
AdvanceBelow(cursors, lists, target, disk) ==
    IF lists = <<>> THEN cursors
    ELSE LET lp == Head(lists)
         IN  AdvanceBelow(IF cursors[lp].doc_id < target
                          THEN [cursors EXCEPT ![lp] = nextGEQ(cursors[lp], target, disk)]
                          ELSE cursors,
                          Tail(lists), target, disk)

\* for lp in lists: lp.nextGEQ(k)
RECURSIVE AdvanceAll(_, _, _, _)
AdvanceAll(cursors, lists, k, disk) ==
    IF lists = <<>> THEN cursors
    ELSE LET lp == Head(lists)
         IN  AdvanceAll([cursors EXCEPT ![lp] = nextGEQ(cursors[lp], k, disk)],
                        Tail(lists), k, disk)

\* A loop that calls nextGEQ on no cursor.
AdvanceAt_None(cursors, lists, doc, disk) == cursors

\* A loop that calls nextGEQ(doc + 1) on every cursor, wherever it stands.
AdvanceAt_Every(cursors, lists, doc, disk) == AdvanceAll(cursors, lists, doc + 1, disk)

\* for lp in lists: if lp.doc_id == doc: lp.nextGEQ(doc + 1)
RECURSIVE AdvanceAt(_, _, _, _)
AdvanceAt(cursors, lists, doc, disk) ==
    IF lists = <<>> THEN cursors
    ELSE LET lp == Head(lists)
         IN  AdvanceAt(IF cursors[lp].doc_id = doc
                       THEN [cursors EXCEPT ![lp] = nextGEQ(cursors[lp], doc + 1, disk)]
                       ELSE cursors,
                       Tail(lists), doc, disk)

\* The sum of getScore(doc) over the cursors standing on doc.
RECURSIVE ScoreAt(_, _, _, _)
ScoreAt(cursors, lists, doc, disk) ==
    IF lists = <<>> THEN 0
    ELSE (IF cursors[Head(lists)].doc_id = doc
          THEN getScore(cursors[Head(lists)], doc, disk) ELSE 0)
         + ScoreAt(cursors, Tail(lists), doc, disk)

\* for lp in lists: if lp.doc_id < INF_DOCID: score += lp.getScore(target)
RECURSIVE ScoreActive(_, _, _, _)
ScoreActive(cursors, lists, target, disk) ==
    IF lists = <<>> THEN 0
    ELSE (IF cursors[Head(lists)].doc_id < INF_DOCID
          THEN getScore(cursors[Head(lists)], target, disk) ELSE 0)
         + ScoreActive(cursors, Tail(lists), target, disk)

\* An engine's loop state: the cursor store, the heap, BWAND's threshold and
\* whether the loop has been left.
EngineStart(cursors) ==
    [cursors |-> cursors, heap |-> <<>>, threshold |-> 0, finished |-> FALSE]

\* One iteration of the while loop of daat_conjunctive.
ConjunctiveIteration(es, lists, k, disk) ==
    LET active_lists == ActiveLists(lists, es.cursors)
    IN  IF active_lists = <<>> THEN [es EXCEPT !.finished = TRUE]
        ELSE LET target == SetMax(DocIdsOf(active_lists, es.cursors))
                 moved == AdvanceBelow(es.cursors, active_lists, target, disk)
             IN  IF target >= INF_DOCID THEN [es EXCEPT !.finished = TRUE]
                 ELSE IF \A i \in 1..Len(active_lists) :
                            moved[active_lists[i]].doc_id = target
                 THEN [es EXCEPT
                         !.heap = check_push_topk(es.heap, target,
                                     ScoreActive(moved, active_lists, target, disk), k),
                         !.cursors = AdvanceAll(moved, active_lists, target + 1, disk)]
                 ELSE [es EXCEPT !.cursors = moved]

\* upper_bound of daat_disjunctive_maxscore for current_doc.
RECURSIVE UpperBound(_, _, _)
UpperBound(cursors, lists, current_doc) ==
    IF lists = <<>> THEN 0
    ELSE (IF cursors[Head(lists)].doc_id <= current_doc
          THEN cursors[Head(lists)].max_score ELSE 0)
         + UpperBound(cursors, Tail(lists), current_doc)

\* One iteration of the while loop of daat_disjunctive_maxscore.
MaxScoreIteration(es, lists, k, disk) ==
    LET current_doc == SetMin(DocIdsOf(lists, es.cursors))
        upper_bound == UpperBound(es.cursors, lists, current_doc)
        threshold == min_score_in_heap(es.heap, k)
    IN  IF current_doc >= INF_DOCID THEN [es EXCEPT !.finished = TRUE]
        ELSE IF upper_bound < threshold
        THEN [es EXCEPT !.cursors = AdvanceAt(es.cursors, lists, current_doc, disk)]
        ELSE [es EXCEPT
                !.heap = check_push_topk(es.heap, current_doc,
                            ScoreAt(es.cursors, lists, current_doc, disk), k),
                !.cursors = AdvanceAt(es.cursors, lists, current_doc, disk)]

\* ub of daat_disjunctive_blockmax_wand: the sum of the current block maxima.
RECURSIVE BlockUpperBound(_, _)
BlockUpperBound(cursors, lists) ==
    IF lists = <<>> THEN 0
    ELSE curr_block_max(cursors[Head(lists)]) + BlockUpperBound(cursors, Tail(lists))

\* min(lists, key = doc_id): the first cursor with the smallest doc_id.
Smallest(lists, cursors) ==
    LET m == SetMin(DocIdsOf(lists, cursors))
    IN  lists[SetMin({i \in 1..Len(lists) : cursors[lists[i]].doc_id = m})]

\* One iteration of the while loop of daat_disjunctive_blockmax_wand.
BlockMaxWandIteration(es, lists, k, disk) ==
    LET pivot_doc == SetMin(DocIdsOf(lists, es.cursors))
        ub == BlockUpperBound(es.cursors, lists)
        smallest == Smallest(lists, es.cursors)
        score == ScoreAt(es.cursors, lists, pivot_doc, disk)
        topk == IF score > 0
                THEN IF Len(es.heap) < k THEN heappush(es.heap, <<score, pivot_doc>>)
                     ELSE IF score > es.heap[1][1]
                          THEN heapreplace(es.heap, <<score, pivot_doc>>)
                          ELSE es.heap
                ELSE es.heap
    IN  IF pivot_doc >= INF_DOCID THEN [es EXCEPT !.finished = TRUE]
        ELSE IF ub < es.threshold
        THEN [es EXCEPT !.cursors[smallest] = advance_to_next_block(@, disk)]
        ELSE [es EXCEPT
                !.heap = topk,
                !.threshold = IF score > 0 THEN topk[1][1] ELSE @,
                !.cursors = AdvanceAt(es.cursors, lists, pivot_doc, disk)]

\* The loop over the query terms in run_query: every term is opened, and the
\* cursors that are not exhausted are collected in lists.
RECURSIVE OpenLists(_, _, _, _)
OpenLists(terms, mem, lists, disk) ==
    IF terms = <<>> THEN [mem |-> mem, lists |-> lists]
    ELSE LET opened == openList(Head(terms), mem, disk)
             lp == opened.lp
         IN  OpenLists(Tail(terms), opened.mem,
                       IF lp # None /\ opened.mem.cursors[lp].doc_id < INF_DOCID
                       THEN Append(lists, lp) ELSE lists,
                       disk)

\* for lp in lists: closeList(lp)
RECURSIVE CloseLists(_, _)
CloseLists(lists, mem) ==
    IF lists = <<>> THEN mem ELSE CloseLists(Tail(lists), closeList(Head(lists), mem))

\* The engine run_query dispatches to sorts lists before its loop.
SortForMode(mode, lists, cursors) ==
    IF mode = "and" THEN SortByDf(lists, cursors) ELSE SortByMaxScore(lists, cursors)

Iteration(mode, es, lists, k, disk) ==
    CASE mode = "and" -> ConjunctiveIteration(es, lists, k, disk)
      [] mode = "or" -> MaxScoreIteration(es, lists, k, disk)
      [] mode = "bwand-or" -> BlockMaxWandIteration(es, lists, k, disk)

\* The while loop of an engine, run until its break.
RECURSIVE Traverse(_, _, _, _, _)
Traverse(mode, es, lists, k, disk) ==
    IF es.finished THEN es
    ELSE Traverse(mode, Iteration(mode, es, lists, k, disk), lists, k, disk)

\* run_query as a function of the query and the memory of the process: the
\* memory it leaves and the list it returns.
run_query(q, mem, disk) ==
    LET opened == OpenLists(q.terms, mem, <<>>, disk)
    IN  IF opened.lists = <<>> THEN [mem |-> opened.mem, results |-> <<>>]
        ELSE LET sorted == SortForMode(q.mode, opened.lists, opened.mem.cursors)
                 es == Traverse(q.mode, EngineStart(opened.mem.cursors), sorted,
                                q.top_k, disk)
             IN  [mem |-> CloseLists(sorted, [cursors |-> es.cursors,
                                              LIST_CACHE |-> opened.mem.LIST_CACHE]),
                  results |-> Ranked(es.heap)]

\* ---------------------------------------------------------------- state

VARIABLES
    chunk_files,    \* the chunk files in the postings directory
    block_size,     \* run_indexer's block_size
    generator,      \* what merge_postings has still to yield
    merger,         \* the generator object of merge_postings, driven stepwise
    parser,         \* the locals of run_parser
    indexer,        \* the locals of run_indexer
    disk,           \* inverted_index.bin, lexicon.json, page_table.json, collection_stats.json
    cursors,        \* the InvertedList objects of the query process
    LIST_CACHE,     \* the global InvertedListCache
    query,          \* the arguments of the running run_query call
    lists,          \* run_query's lists: references into cursors
    engine,         \* the running DAAT loop: heap, threshold, finished
    results,        \* what run_query returned
    call,           \* the last call made on a cursor: its argument and result
    codec,          \* the last varbyte_encode / varbyte_decode call
    used,           \* history: the number of calls made on the cache, and for
                    \* every term the number of the call that last put or hit it
    pc              \* where the modelled process stands

vars == <<chunk_files, block_size, generator, merger, parser, indexer, disk, cursors, LIST_CACHE,
          query, lists, engine, results, call, codec, used, pc>>

indexerVars == <<chunk_files, block_size, generator, merger, parser, indexer>>

queryVars == <<cursors, LIST_CACHE, query, lists, engine, results, call, codec, used>>

NoDisk == [inverted_index_file |-> <<>>, lexicon |-> <<>>, page_table |-> <<>>,
           collection_stats |-> [total_docs |-> 0, avg_len |-> <<1, 1>>]]

NoQuery == [terms |-> <<>>, mode |-> "", top_k |-> 0]

NoEngine == [heap |-> <<>>, threshold |-> 0, finished |-> FALSE]

NoCall == [op |-> "", arg |-> 0, prior |-> 0, returned |-> 0]

NoUse == [calls |-> 0, last |-> <<>>]

NoCodec == [op |-> "", numbers |-> <<>>, encoded_bytes |-> <<>>, stream |-> <<>>,
            decoded_numbers |-> <<>>]

\* shared/config.py
BLOCK_SIZE == 128
CHUNK_SIZE == 2000000

BlockSizes == (1..MaxBlockSize) \cup {BLOCK_SIZE}

ChunkSizes == (1..MaxChunkSize) \cup {CHUNK_SIZE}

\* --------------------------------------------------- run_indexer as a process

IndexerIdle ==
    /\ disk = NoDisk
    /\ cursors = <<>>
    /\ LIST_CACHE = InvertedListCache(DefaultCapacity)
    /\ query = NoQuery
    /\ lists = <<>>
    /\ engine = NoEngine
    /\ results = <<>>
    /\ call = NoCall
    /\ codec = NoCodec
    /\ used = NoUse

InitIndexer ==
    /\ \E numbering \in Numberings, texts \in TextLists, chunk_size \in ChunkSizes :
          chunk_files = run_parser(MakeCorpus(numbering, texts), chunk_size)
    /\ block_size \in BlockSizes
    /\ generator = merge_postings(chunk_files)
    /\ merger = NoMerger
    /\ parser = NoParser
    /\ indexer = IndexerStart
    /\ IndexerIdle
    /\ pc = "indexing"

\* The body of `for posting in generator` for the next posting.
ConsumePosting ==
    /\ pc = "indexing"
    /\ generator # <<>>
    /\ indexer' = IndexPosting(indexer, Head(generator), block_size)
    /\ generator' = Tail(generator)
    /\ UNCHANGED <<chunk_files, block_size, merger, parser, disk, queryVars, pc>>

\* The stream is exhausted: the last term is flushed and the lexicon, the
\* page table and the collection stats are written.
FinishIndex ==
    /\ pc = "indexing"
    /\ generator = <<>>
    /\ indexer' = IndexFlushLast(indexer, block_size)
    /\ disk' = [inverted_index_file |-> indexer'.inverted_index_file,
                lexicon |-> indexer'.lexicon,
                page_table |-> indexer'.page_table,
                collection_stats |-> CollectionStats(indexer')]
    /\ pc' = "indexed"
    /\ UNCHANGED <<chunk_files, block_size, generator, merger, parser, queryVars>>

NextIndexer == ConsumePosting \/ FinishIndex

SpecIndexer == InitIndexer /\ [][NextIndexer]_vars

\* ------------------------------------------------ run_parser as a process

\* The texts: one token, two tokens out of order, a token twice, and a text
\* without any token.
ParserTexts == {<<1>>, <<2, 1>>, <<1, 1>>, <<>>}

ParserLines ==
    [kind : {"doc"}, doc_id : {1, 2}, text : ParserTexts]
        \cup [kind : {"blank", "no_tab", "bad_id"}, doc_id : {0}, text : {<<>>}]

Datasets == UNION {[1..n -> ParserLines] : n \in 0..MaxCorpusLines}

\* '1<TAB>the quick brown fox' and '2<TAB>The quick blue fox' with the terms
\* numbered in alphabetical order: blue, brown, fox, quick, the.
ExampleDataset == <<[kind |-> "doc", doc_id |-> 1, text |-> <<5, 4, 2, 3>>],
                    [kind |-> "doc", doc_id |-> 2, text |-> <<5, 4, 1, 3>>]>>

\* The run of the example: chunk_size = 4, no max_docs.
ExampleRun == ParserStart(ExampleDataset, 4, 0)

InitParser ==
    /\ chunk_files = <<>>
    /\ block_size = BLOCK_SIZE
    /\ generator = <<>>
    /\ merger = NoMerger
    /\ \/ \E dataset \in Datasets, chunk_size \in ChunkSizes, max_docs \in 0..MaxMaxDocs :
             parser = ParserStart(dataset, chunk_size, max_docs)
       \/ parser = ExampleRun
    /\ indexer = IndexerStart
    /\ IndexerIdle
    /\ pc = "parsing"

parserFrame == <<block_size, generator, merger, indexer, disk, queryVars, pc>>

Reading == pc = "parsing" /\ parser.state = "reading" /\ parser.line < Len(parser.dataset)

NextLine == parser.dataset[parser.line + 1]

\* A blank line or a line without a TAB: continue.
SkipLine ==
    /\ Reading
    /\ NextLine.kind \in {"blank", "no_tab"}
    /\ parser' = [parser EXCEPT !.line = @ + 1]
    /\ UNCHANGED <<chunk_files, parserFrame>>

\* int(doc_id) raises ValueError, which nothing in run_parser catches.
RaiseOnDocId ==
    /\ Reading
    /\ NextLine.kind = "bad_id"
    /\ parser' = [parser EXCEPT !.line = @ + 1, !.state = "raised"]
    /\ UNCHANGED <<chunk_files, parserFrame>>

\* The loop body for a document.
ParseDocument ==
    /\ Reading
    /\ NextLine.kind = "doc"
    /\ LET parsed == ParseDoc(parser, NextLine)
       IN  /\ parser' = parsed.parser
           /\ chunk_files' = IF parsed.flushed
                             THEN Append(chunk_files,
                                         write_chunk(parser.postings \o DocPostings(NextLine)))
                             ELSE chunk_files
    /\ UNCHANGED parserFrame

\* The file is read to its end: the loop is left.
EndOfFile ==
    /\ pc = "parsing"
    /\ parser.state = "reading"
    /\ parser.line = Len(parser.dataset)
    /\ parser' = [parser EXCEPT !.state = "flushing"]
    /\ UNCHANGED <<chunk_files, parserFrame>>

\* if postings: write_chunk(postings, output_dir, chunk_id), and return.
FinalFlush ==
    /\ pc = "parsing"
    /\ parser.state = "flushing"
    /\ chunk_files' = IF parser.postings # <<>>
                      THEN Append(chunk_files, write_chunk(parser.postings))
                      ELSE chunk_files
    /\ parser' = [parser EXCEPT !.state = "returned"]
    /\ UNCHANGED parserFrame

NextParser == SkipLine \/ RaiseOnDocId \/ ParseDocument \/ EndOfFile \/ FinalFlush

SpecParser == InitParser /\ [][NextParser]_vars

\* ------------------------------------------ merge_postings as a generator

\* The lines of the chunk files: postings of two terms in two documents, and
\* a line of one token.
MergePostings == {<<t, d, 1>> : t \in {1, 2}, d \in {1, 2}}

MalformedLine == <<9>>

PostingsSorted(lines) ==
    \A i \in 1..Len(lines) :
        /\ Len(lines[i]) = 3
        /\ i > 1 => KeyLeq(lines[i - 1], lines[i])

\* A chunk is sorted by (term, docID) but for the malformed lines it holds.
RECURSIVE WithoutMalformed(_)
WithoutMalformed(lines) ==
    IF lines = <<>> THEN <<>>
    ELSE IF Head(lines) = MalformedLine THEN WithoutMalformed(Tail(lines))
    ELSE <<Head(lines)>> \o WithoutMalformed(Tail(lines))

Chunks ==
    {lines \in UNION {[1..n -> MergePostings \cup {MalformedLine}] : n \in 0..MaxLines} :
        PostingsSorted(WithoutMalformed(lines))}

\* The two chunks {a 1 1, b 2 1} and {a 3 1, c 5 1}.
ExampleChunks == << <<(<<1, 1, 1>>), (<<2, 2, 1>>)>>, <<(<<1, 3, 1>>), (<<3, 5, 1>>)>> >>

ChunkLists == UNION {[1..n -> Chunks] : n \in 0..MaxChunks} \cup {ExampleChunks}

InitMerge ==
    /\ chunk_files \in ChunkLists
    /\ block_size = BLOCK_SIZE
    /\ generator = <<>>
    /\ merger = NewMerger
    /\ parser = NoParser
    /\ indexer = IndexerStart
    /\ IndexerIdle
    /\ pc = "merging"

mergeFrame == <<chunk_files, block_size, generator, parser, indexer, disk, queryVars, pc>>

\* for posting in generator: the first next() of the for loop.
FirstNext ==
    /\ pc = "merging"
    /\ merger.state = "created"
    /\ merger' = MergerStart(merger, chunk_files)
    /\ UNCHANGED mergeFrame

\* A later next() of the for loop.
LaterNext ==
    /\ pc = "merging"
    /\ merger.state = "suspended"
    /\ merger' = MergerResume(merger, chunk_files)
    /\ UNCHANGED mergeFrame

\* The consumer stops or fails between two postings.
ConsumerStops ==
    /\ pc = "merging"
    /\ merger.state = "suspended"
    /\ merger' = MergerClose(merger)
    /\ UNCHANGED mergeFrame

NextMerge == FirstNext \/ LaterNext \/ ConsumerStops

SpecMerge == InitMerge /\ [][NextMerge]_vars

\* ------------------------------------------- one cursor driven by a caller

\* The posting lists the cursor is driven over: the documents with these
\* docIDs, each holding term 1 once.
CursorDocIds == {1, 2, 3, 130, 131}

RECURSIVE Ascending(_)
Ascending(S) == IF S = {} THEN <<>> ELSE <<SetMin(S)>> \o Ascending(S \ {SetMin(S)})

\* Documents 2 and 130 hold the term twice, the others once.
CursorText(d) == IF d \in {2, 130} THEN <<1, 1>> ELSE <<1>>

CursorCorpus(ids) ==
    LET docs == Ascending(ids)
    IN  [i \in 1..Len(docs) |-> [doc_id |-> docs[i], text |-> CursorText(docs[i])]]

\* The arguments nextGEQ and getScore are called with.
ProbeKeys == {0} \cup CursorDocIds \cup {d + 1 : d \in CursorDocIds}

IndexerDone ==
    /\ chunk_files = <<>>
    /\ generator = <<>>
    /\ merger = NoMerger
    /\ parser = NoParser
    /\ indexer = IndexerStart

InitCursor ==
    /\ IndexerDone
    /\ block_size \in BlockSizes
    /\ \E ids \in (SUBSET CursorDocIds) \ {{}} :
          disk = run_indexer(run_parser(CursorCorpus(ids), CHUNK_SIZE), block_size)
    /\ cursors = <<InvertedList(1, disk)>>
    /\ LIST_CACHE = InvertedListCache(DefaultCapacity)
    /\ query = NoQuery
    /\ lists = <<>>
    /\ engine = NoEngine
    /\ results = <<>>
    /\ call = NoCall
    /\ codec = NoCodec
    /\ used = NoUse
    /\ pc = "cursor"

cursorFrame == <<indexerVars, disk, LIST_CACHE, query, lists, engine, results, codec,
                 used, pc>>

\* Each nextGEQ call on an exhausted cursor adds one to curr_block_idx;
\* the caller stops once it stands MaxOvershoot past the last block.
CallNextGEQ ==
    /\ pc = "cursor"
    /\ cursors[1].curr_block_idx < cursors[1].block_count + MaxOvershoot
    /\ \E k \in ProbeKeys :
          /\ cursors' = [cursors EXCEPT ![1] = nextGEQ(@, k, disk)]
          /\ call' = [op |-> "nextGEQ", arg |-> k, prior |-> cursors[1].doc_id,
                      returned |-> cursors'[1].doc_id]
    /\ UNCHANGED cursorFrame

CallAdvanceToNextBlock ==
    /\ pc = "cursor"
    /\ cursors' = [cursors EXCEPT ![1] = advance_to_next_block(@, disk)]
    /\ call' = [op |-> "advance_to_next_block", arg |-> 0, prior |-> cursors[1].doc_id,
                returned |-> 0]
    /\ UNCHANGED cursorFrame

CallReset ==
    /\ pc = "cursor"
    /\ cursors' = [cursors EXCEPT ![1] = reset(@, disk)]
    /\ call' = [op |-> "reset", arg |-> 0, prior |-> cursors[1].doc_id, returned |-> 0]
    /\ UNCHANGED cursorFrame

NextCursor == CallNextGEQ \/ CallAdvanceToNextBlock \/ CallReset

SpecCursor == InitCursor /\ [][NextCursor]_vars

\* ------------------------------------------------ run_query as a process

\* The tokenised queries: one or two terms, a term possibly twice.
QueryTerms == {<<t>> : t \in Terms} \cup (Terms \X Terms)

Modes == {"and", "or", "bwand-or"}

InitQuery ==
    /\ IndexerDone
    /\ block_size \in BlockSizes
    /\ \E texts \in TextLists :
          disk = run_indexer(run_parser(MakeCorpus("dense", texts), CHUNK_SIZE), block_size)
    /\ cursors = <<>>
    /\ LIST_CACHE = InvertedListCache(DefaultCapacity)
    /\ query = NoQuery
    /\ lists = <<>>
    /\ engine = NoEngine
    /\ results = <<>>
    /\ call = NoCall
    /\ codec = NoCodec
    /\ used = NoUse
    /\ pc = "ready"

\* run_query up to the engine's loop: the terms are opened; with no list
\* left it returns [], otherwise the engine sorts lists and starts its heap.
StartQuery ==
    /\ pc = "ready"
    /\ \E terms \in QueryTerms, mode \in Modes, top_k \in 1..MaxK :
          LET opened == OpenLists(terms, [cursors |-> cursors, LIST_CACHE |-> LIST_CACHE],
                                  <<>>, disk)
          IN  /\ query' = [terms |-> terms, mode |-> mode, top_k |-> top_k]
              /\ cursors' = opened.mem.cursors
              /\ LIST_CACHE' = opened.mem.LIST_CACHE
              /\ IF opened.lists = <<>>
                 THEN /\ lists' = <<>>
                      /\ pc' = "done"
                 ELSE /\ lists' = SortForMode(mode, opened.lists, opened.mem.cursors)
                      /\ pc' = "traversal"
    /\ engine' = NoEngine
    /\ results' = <<>>
    /\ UNCHANGED <<indexerVars, disk, call, codec, used>>

EngineState == [cursors |-> cursors, heap |-> engine.heap,
                threshold |-> engine.threshold, finished |-> engine.finished]

\* The iteration's outcome es becomes the state of the process.
EngineMoves(es) ==
    /\ cursors' = es.cursors
    /\ engine' = [heap |-> es.heap, threshold |-> es.threshold, finished |-> es.finished]
    /\ UNCHANGED <<indexerVars, disk, LIST_CACHE, query, lists, results, call, codec, used, pc>>

ConjunctiveStep ==
    /\ pc = "traversal"
    /\ query.mode = "and"
    /\ ~engine.finished
    /\ EngineMoves(ConjunctiveIteration(EngineState, lists, query.top_k, disk))

MaxScoreStep ==
    /\ pc = "traversal"
    /\ query.mode = "or"
    /\ ~engine.finished
    /\ EngineMoves(MaxScoreIteration(EngineState, lists, query.top_k, disk))

BlockMaxWandStep ==
    /\ pc = "traversal"
    /\ query.mode = "bwand-or"
    /\ ~engine.finished
    /\ EngineMoves(BlockMaxWandIteration(EngineState, lists, query.top_k, disk))

\* The engine returns its ranked heap; run_query closes the lists and
\* returns the result.
FinishQuery ==
    /\ pc = "traversal"
    /\ engine.finished
    /\ results' = Ranked(engine.heap)
    /\ LET mem == CloseLists(lists, [cursors |-> cursors, LIST_CACHE |-> LIST_CACHE])
       IN  /\ cursors' = mem.cursors
           /\ LIST_CACHE' = mem.LIST_CACHE
    /\ pc' = "done"
    /\ UNCHANGED <<indexerVars, disk, query, lists, engine, call, codec, used>>

NextQuery == StartQuery \/ ConjunctiveStep \/ MaxScoreStep \/ BlockMaxWandStep \/ FinishQuery

SpecQuery == InitQuery /\ [][NextQuery]_vars

\* ------------------------------------------------ the codec and its callers

\* The integers handed to varbyte_encode: the ends of the one-, two-, three-
\* and four-byte ranges.
Numbers == {0, 1, 127, 128, 16383, 16384, 2097151, 2097152}

EdgeCases == <<0, 1, 127, 128, 16383, 16384, 2097151, 2097152>>

NumberLists == UNION {[1..n -> Numbers] : n \in 0..MaxLen} \cup {EdgeCases}

InitCodec ==
    /\ IndexerDone
    /\ block_size = BLOCK_SIZE
    /\ IndexerIdle
    /\ pc = "codec"

codecFrame == <<indexerVars, disk, cursors, LIST_CACHE, query, lists, engine, results,
                call, used, pc>>

\* A caller encodes a list of numbers.
Encode ==
    /\ pc = "codec"
    /\ \E numbers \in NumberLists :
          LET encoded_bytes == varbyte_encode(numbers)
          IN  codec' = [op |-> "encode", numbers |-> numbers,
                        encoded_bytes |-> encoded_bytes, stream |-> encoded_bytes,
                        decoded_numbers |-> <<>>]
    /\ UNCHANGED codecFrame

\* A caller decodes the first n bytes of what was encoded: all of them, or a
\* stream cut short (file.read returns fewer bytes than asked for at the end
\* of the file).
Decode ==
    /\ pc = "codec"
    /\ codec.op = "encode"
    /\ \E n \in 0..Len(codec.encoded_bytes) :
          LET stream == SubSeq(codec.encoded_bytes, 1, n)
          IN  codec' = [codec EXCEPT !.op = "decode", !.stream = stream,
                                     !.decoded_numbers = varbyte_decode(stream)]
    /\ UNCHANGED codecFrame

NextCodec == Encode \/ Decode

SpecCodec == InitCodec /\ [][NextCodec]_vars

\* ------------------------------------------- the cache class and its callers

\* The keys the cache is called with, and the objects put into it.
CacheTerms == {1, 2, 3}

CacheObjects == {1, 2}

InitCache ==
    /\ IndexerDone
    /\ block_size = BLOCK_SIZE
    /\ disk = NoDisk
    /\ cursors = <<>>
    /\ \E capacity \in 1..MaxCapacity : LIST_CACHE = InvertedListCache(capacity)
    /\ query = NoQuery
    /\ lists = <<>>
    /\ engine = NoEngine
    /\ results = <<>>
    /\ call = NoCall
    /\ codec = NoCodec
    /\ used = NoUse
    /\ pc = "cache"

cacheFrame == <<indexerVars, disk, cursors, query, lists, engine, results, codec, pc>>

\* cache.get(term); prior is the cache as the call found it.
Get ==
    /\ pc = "cache"
    /\ used.calls < MaxCalls
    /\ \E term \in CacheTerms :
          LET got == CacheGet(LIST_CACHE, term)
          IN  /\ LIST_CACHE' = got.lc
              /\ call' = [op |-> "get", arg |-> term, prior |-> LIST_CACHE,
                          returned |-> got.value]
              /\ used' = [calls |-> used.calls + 1,
                          last |-> IF got.value # None
                                   THEN Put(used.last, term, used.calls + 1)
                                   ELSE used.last]
    /\ UNCHANGED cacheFrame

\* cache.put(term, inverted_list)
CallPut ==
    /\ pc = "cache"
    /\ used.calls < MaxCalls
    /\ \E term \in CacheTerms, inverted_list \in CacheObjects :
          /\ LIST_CACHE' = CachePut(LIST_CACHE, term, inverted_list)
          /\ call' = [op |-> "put", arg |-> term, prior |-> LIST_CACHE,
                      returned |-> None]
          /\ used' = [calls |-> used.calls + 1,
                      last |-> Put(used.last, term, used.calls + 1)]
    /\ UNCHANGED cacheFrame

NextCache == Get \/ CallPut

SpecCache == InitCache /\ [][NextCache]_vars

\* ------------------------------------------- a session of run_query calls

\* The terms of the session's corpus: more of them than LIST_CACHE holds.
SessionTerms == 1..(DefaultCapacity + 2)

SessionText == [i \in SessionTerms |-> i]

\* One document holding every term, alone or followed by a shorter one.
SessionCorpora == {<<SessionText>>, <<SessionText, <<1, 2>>>>}

\* The queries: as many terms as the cache holds, single terms and pairs
\* inside and outside the first ten, and a term of no document.
SessionQueries ==
    {SubSeq(SessionText, 1, DefaultCapacity),
     <<1>>, <<2, 1>>, <<DefaultCapacity + 1>>,
     <<DefaultCapacity + 1, DefaultCapacity + 2>>, <<DefaultCapacity + 3>>}

\* The process after QueryStartupContext has loaded the index: LIST_CACHE is
\* the module's global InvertedListCache(), and no cursor exists yet.
InitSession ==
    /\ IndexerDone
    /\ block_size = BLOCK_SIZE
    /\ \E texts \in SessionCorpora :
          disk = run_indexer(run_parser(MakeCorpus("dense", texts), CHUNK_SIZE), block_size)
    /\ cursors = <<>>
    /\ LIST_CACHE = InvertedListCache(DefaultCapacity)
    /\ query = NoQuery
    /\ lists = <<>>
    /\ engine = NoEngine
    /\ results = <<>>
    /\ call = NoCall
    /\ codec = NoCodec
    /\ used = NoUse
    /\ pc = "ready"

\* run_query called once more by the process, up to the engine's loop.
StartSessionQuery ==
    /\ pc \in {"ready", "done"}
    /\ used.calls < MaxQueries
    /\ \E terms \in SessionQueries, mode \in Modes :
          LET opened == OpenLists(terms, [cursors |-> cursors, LIST_CACHE |-> LIST_CACHE],
                                  <<>>, disk)
          IN  /\ query' = [terms |-> terms, mode |-> mode, top_k |-> MaxK]
              /\ cursors' = opened.mem.cursors
              /\ LIST_CACHE' = opened.mem.LIST_CACHE
              /\ IF opened.lists = <<>>
                 THEN /\ lists' = <<>>
                      /\ pc' = "done"
                 ELSE /\ lists' = SortForMode(mode, opened.lists, opened.mem.cursors)
                      /\ pc' = "traversal"
    /\ engine' = NoEngine
    /\ results' = <<>>
    /\ used' = [used EXCEPT !.calls = @ + 1]
    /\ UNCHANGED <<indexerVars, disk, call, codec>>

NextSession ==
    StartSessionQuery \/ ConjunctiveStep \/ MaxScoreStep \/ BlockMaxWandStep \/ FinishQuery

SpecSession == InitSession /\ [][NextSession]_vars

\* ------------------------------------------------- claims on the index

\* The postings of term in a stream, in stream order.
RECURSIVE StreamPostings(_, _)
StreamPostings(stream, term) ==
    IF stream = <<>> THEN <<>>
    ELSE IF Head(stream)[1] = term
         THEN <<Head(stream)>> \o StreamPostings(Tail(stream), term)
         ELSE StreamPostings(Tail(stream), term)

\* What a reader gets from the index file for the block: <<docIDs, freqs>>.
DecodedBlock(d, block) ==
    decode_postings(
        FileRead(d.inverted_index_file, block.offset, block.bytes_doc_ids),
        FileRead(d.inverted_index_file, block.offset + block.bytes_doc_ids,
                 block.bytes_freqs))

\* The postings i+1..i+n of a term's stream postings as <<docIDs, freqs>>.
StreamSlice(posts, i, n) ==
    LET hi == Min2(i + n, Len(posts))
    IN  <<[j \in 1..(hi - i) |-> posts[i + j][2]], [j \in 1..(hi - i) |-> posts[i + j][3]]>>

Indexed == pc = "indexed"

\* C8: every recorded block_max_score is at least the BM25 score of every
\* posting of its block, computed as the query-time cursor's getScore
\* computes it: with the final total_docs, avg_len and document lengths.
C8_BlockMaxBoundsScores ==
    Indexed =>
        \A term \in DOMAIN disk.lexicon :
            LET e == disk.lexicon[term]
                idf == compute_idf(e.df, disk.collection_stats.total_docs)
            IN  \A i \in 1..Len(e.blocks) :
                    LET decoded == DecodedBlock(disk, e.blocks[i])
                    IN  \A j \in 1..Len(decoded[1]) :
                            e.blocks[i].block_max_score >=
                                BM25(idf, decoded[2][j],
                                     DocLen(disk.page_table, decoded[1][j]),
                                     disk.collection_stats.avg_len)

\* C9: after run_indexer, for every term of the lexicon df is the number of
\* the term's postings in the merged stream and the sum of the entries of its
\* blocks, block_count = len(blocks) = ceil(df / block_size), bytes is the sum
\* of bytes_block, and bytes_block = bytes_doc_ids + bytes_freqs in every block.
C9_LexiconConsistent ==
    Indexed =>
        \A term \in DOMAIN disk.lexicon :
            LET e == disk.lexicon[term]
                n == Len(e.blocks)
            IN  /\ e.df = Len(StreamPostings(merge_postings(chunk_files), term))
                /\ e.df = SeqSum([i \in 1..n |-> Len(DecodedBlock(disk, e.blocks[i])[1])])
                /\ e.block_count = n
                /\ e.block_count = (e.df + block_size - 1) \div block_size
                /\ e.bytes = SeqSum([i \in 1..n |-> e.blocks[i].bytes_block])
                /\ \A i \in 1..n : e.blocks[i].bytes_block =
                        e.blocks[i].bytes_doc_ids + e.blocks[i].bytes_freqs

\* A term written in more than one block, one of whose docID segments holds a
\* two-byte value.
C9_Witness ==
    /\ Indexed
    /\ \E term \in DOMAIN disk.lexicon :
          LET e == disk.lexicon[term]
          IN  /\ e.block_count >= 2
              /\ \E i \in 1..Len(e.blocks) :
                    e.blocks[i].bytes_doc_ids > Len(DecodedBlock(disk, e.blocks[i])[1])

\* C10: the index file is laid out contiguously and as the lexicon says: the
\* first term is at offset 0, a term's first block at the term's offset, every
\* further block and every next term right behind its predecessor, the bytes
\* found at the recorded offsets are the blocks that were written there, and
\* the terms' byte ranges end where the file ends.
C10_LayoutContiguous ==
    Indexed =>
        LET lex == disk.lexicon
            written == DOMAIN lex
        IN  /\ written # {} => lex[SetMin(written)].offset = 0
            /\ \A term \in written :
                  LET e == lex[term]
                      posts == StreamPostings(merge_postings(chunk_files), term)
                  IN  /\ e.blocks[1].offset = e.offset
                      /\ \A i \in 1..(Len(e.blocks) - 1) :
                            e.blocks[i + 1].offset =
                                e.blocks[i].offset + e.blocks[i].bytes_block
                      /\ \A i \in 1..Len(e.blocks) :
                            DecodedBlock(disk, e.blocks[i]) =
                                StreamSlice(posts, (i - 1) * block_size, block_size)
            /\ \A term \in written, next \in written :
                  (term < next /\ ~\E between \in written : term < between /\ between < next)
                      => lex[next].offset = lex[term].offset + lex[term].bytes
            /\ written # {} =>
                  lex[SetMax(written)].offset + lex[SetMax(written)].bytes
                      = Len(disk.inverted_index_file)

\* Three terms written, the second of them in two blocks.
C10_Witness ==
    /\ Indexed
    /\ Cardinality(DOMAIN disk.lexicon) = 3
    /\ disk.lexicon[2].block_count >= 2
    /\ disk.lexicon[3].offset > disk.lexicon[2].offset

\* C11: in every block written, last_doc_id is the docID of the block's final
\* posting, and within a term the last_doc_id of successive blocks strictly
\* increases.
C11_LastDocIds ==
    Indexed =>
        \A term \in DOMAIN disk.lexicon :
            LET e == disk.lexicon[term]
            IN  /\ \A i \in 1..Len(e.blocks) :
                      e.blocks[i].last_doc_id = Last(DecodedBlock(disk, e.blocks[i])[1])
                /\ \A i \in 1..(Len(e.blocks) - 1) :
                      e.blocks[i].last_doc_id < e.blocks[i + 1].last_doc_id

\* The gap stream stored for the block: the decoded docID segment.
GapStream(d, block) ==
    varbyte_decode(FileRead(d.inverted_index_file, block.offset, block.bytes_doc_ids))

\* C12: for every block of the index, the prefix sums of its decoded gap
\* stream are a strictly increasing docID sequence: the first value is the
\* absolute docID of the block's first posting and every later gap is >= 1.
C12_GapsStrictlyIncreasing ==
    Indexed =>
        \A term \in DOMAIN disk.lexicon :
            LET e == disk.lexicon[term]
                posts == StreamPostings(merge_postings(chunk_files), term)
            IN  \A i \in 1..Len(e.blocks) :
                    LET gaps == GapStream(disk, e.blocks[i])
                        ids == PrefixSums(gaps, 0)
                    IN  /\ gaps[1] = posts[(i - 1) * block_size + 1][2]
                        /\ \A j \in 2..Len(gaps) : gaps[j] >= 1 /\ ids[j - 1] < ids[j]

\* The docIDs of the postings of a stream, and the sum of tf over the
\* postings of document d.
StreamDocs(stream) == {stream[i][2] : i \in 1..Len(stream)}

StreamLength(stream, d) ==
    SeqSum([i \in 1..Len(stream) |-> IF stream[i][2] = d THEN stream[i][3] ELSE 0])

\* C13: after run_indexer the page table has an entry for exactly the docIDs
\* of the merged stream's postings, and the length of each entry is the sum
\* of tf over all postings of that document.
C13_PageTableLengths ==
    Indexed =>
        LET stream == merge_postings(chunk_files)
        IN  /\ DOMAIN disk.page_table = StreamDocs(stream)
            /\ \A d \in StreamDocs(stream) :
                  disk.page_table[d].length = StreamLength(stream, d)

\* Two documents are indexed, one of them with postings of two terms.
C13_Witness ==
    /\ Indexed
    /\ Cardinality(DOMAIN disk.page_table) >= 2
    /\ \E d \in DOMAIN disk.page_table :
          LET stream == merge_postings(chunk_files)
          IN  /\ Cardinality({i \in 1..Len(stream) : stream[i][2] = d}) >= 2
              /\ disk.page_table[d].length = StreamLength(stream, d)

\* C14: the collection stats hold total_docs = the number of distinct docIDs
\* in the postings and avg_len = (sum of all tf) / total_docs, or 1.0 when
\* total_docs is 0.
C14_CollectionStats ==
    Indexed =>
        LET stream == merge_postings(chunk_files)
            stats == disk.collection_stats
            total_tf == SeqSum([i \in 1..Len(stream) |-> stream[i][3]])
        IN  /\ stats.total_docs = Cardinality(StreamDocs(stream))
            /\ stats.avg_len[2] > 0
            /\ IF stats.total_docs = 0
               THEN stats.avg_len[1] = stats.avg_len[2]
               ELSE stats.avg_len[1] * stats.total_docs = total_tf * stats.avg_len[2]

\* An index of several documents whose average length is not a whole number,
\* with more postings than documents.
C14_Witness ==
    /\ Indexed
    /\ disk.collection_stats.total_docs >= 2
    /\ Len(merge_postings(chunk_files)) > disk.collection_stats.total_docs
    /\ disk.collection_stats.avg_len[1] % disk.collection_stats.avg_len[2] # 0

\* The index of the empty postings directory: no document, avg_len 1.0.
C14_WitnessEmpty ==
    /\ Indexed
    /\ chunk_files = <<>>
    /\ disk.collection_stats = [total_docs |-> 0, avg_len |-> <<1, 1>>]

\* ------------------------------------------------ claims on the cursor

\* Every docID of the cursor's posting list, read block by block from disk.
ListDocIds(c) ==
    UNION {{DecodedBlock(disk, c.blocks[i])[1][j] :
                j \in 1..Len(DecodedBlock(disk, c.blocks[i])[1])} : i \in 1..Len(c.blocks)}

\* C5: after nextGEQ(k) returns d, for every k: d is INF_DOCID and no posting
\* at or behind the cursor's prior position has a docID >= k, or d >= k and d
\* is the smallest docID of the list that is >= k and >= the prior doc_id.
C5_NextGEQCorrect ==
    call.op = "nextGEQ" =>
        LET candidates == {x \in ListDocIds(cursors[1]) :
                               x >= call.arg /\ x >= call.prior}
        IN  \/ call.returned = INF_DOCID /\ candidates = {}
            \/ /\ call.returned >= call.arg
               /\ candidates # {}
               /\ call.returned = SetMin(candidates)

\* C6: a nextGEQ call, whatever its argument, never lowers the cursor's
\* doc_id; a doc_id of INF_DOCID stays INF_DOCID.
C6_NextGEQMonotonic ==
    call.op = "nextGEQ" => call.returned >= call.prior

\* C7: getScore(d) is 0.0 unless the cursor's doc_id is d; an exhausted
\* cursor scores 0.0 for every d.
C7_ScoreOnlyAtDocId ==
    pc = "cursor" =>
        \A d \in ProbeKeys :
            cursors[1].doc_id # d => getScore(cursors[1], d, disk) = 0

\* C26: reset() leaves the cursor as InvertedList(term, ...) builds it -
\* block 0 loaded, curr_block_idx 0, curr_idx 0, doc_id the first docID -
\* from every state the cursor can be in, and so does openList when it finds
\* the cursor in the cache.
C26_ResetIsFresh ==
    pc = "cursor" =>
        /\ reset(cursors[1], disk) = InvertedList(1, disk)
        /\ call.op = "reset" =>
              /\ cursors[1] = InvertedList(1, disk)
              /\ cursors[1].curr_block_idx = 0
              /\ cursors[1].curr_idx = 0
              /\ cursors[1].doc_id = SetMin(ListDocIds(cursors[1]))
              /\ cursors[1].curr_block_docIDs = DecodedBlock(disk, cursors[1].blocks[1])[1]
        /\ LET cached == CachePut(LIST_CACHE, 1, 1)
               opened == openList(1, [cursors |-> cursors, LIST_CACHE |-> cached], disk)
           IN  /\ opened.lp = 1
               /\ opened.mem.cursors[1] = InvertedList(1, disk)

\* reset() has been called on a cursor that stood exhausted past the last
\* of several blocks.
C26_Witness ==
    /\ pc = "cursor"
    /\ call.op = "reset"
    /\ call.prior = INF_DOCID
    /\ cursors[1].block_count >= 2
    /\ cursors[1].doc_id < INF_DOCID

\* ------------------------------------------------- claims on run_query

\* The postings <<docID, freq>> of a term, read from the index on disk.
TermPostings(term) ==
    IF term \notin DOMAIN disk.lexicon THEN {}
    ELSE LET blocks == disk.lexicon[term].blocks
         IN  UNION {{<<DecodedBlock(disk, blocks[i])[1][j], DecodedBlock(disk, blocks[i])[2][j]>> :
                        j \in 1..Len(DecodedBlock(disk, blocks[i])[1])} : i \in 1..Len(blocks)}

TermDocs(term) == {p[1] : p \in TermPostings(term)}

\* The query terms that are in the lexicon.
PresentTerms == {query.terms[i] : i \in 1..Len(query.terms)} \cap DOMAIN disk.lexicon

ResultDocs == {results[i][1] : i \in 1..Len(results)}

Returned(mode) == pc = "done" /\ query.mode = mode

\* The documents that occur in the posting list of every present query term.
Intersection ==
    {d \in UNION {TermDocs(t) : t \in PresentTerms} : \A t \in PresentTerms : d \in TermDocs(t)}

\* C1: mode 'and' returns only docIDs that occur in the posting list of every
\* query term present in the lexicon, and all of them when k is at least the
\* size of that intersection.
C1_ConjunctiveIsIntersection ==
    Returned("and") =>
        /\ ResultDocs \subseteq Intersection
        /\ query.top_k >= Cardinality(Intersection) => ResultDocs = Intersection

\* The BM25 score of document d for one term, with the final statistics.
TermScore(term, d) ==
    IF d \notin TermDocs(term) THEN 0
    ELSE LET p == CHOOSE p \in TermPostings(term) : p[1] = d
         IN  BM25(compute_idf(disk.lexicon[term].df, disk.collection_stats.total_docs),
                  p[2], DocLen(disk.page_table, d), disk.collection_stats.avg_len)

\* The exhaustive scan's score of d: the sum over the query's terms.
ExhaustiveScore(d) ==
    SeqSum([i \in 1..Len(query.terms) |-> TermScore(query.terms[i], d)])

Candidates == UNION {TermDocs(t) : t \in PresentTerms}

\* The scores of the documents of S, best first.
RECURSIVE BestScores(_)
BestScores(S) ==
    IF S = {} THEN <<>>
    ELSE LET best == CHOOSE d \in S : \A e \in S : ExhaustiveScore(e) <= ExhaustiveScore(d)
         IN  <<ExhaustiveScore(best)>> \o BestScores(S \ {best})

\* C2: mode 'or' (MaxScore) returns k documents (all candidates if there are
\* fewer), each with its exhaustive score, and their scores are the k best
\* scores of an exhaustive scan over every document of the query's lists.
C2_MaxScoreIsExhaustive ==
    Returned("or") =>
        LET n == Min2(query.top_k, Cardinality(Candidates))
        IN  /\ Len(results) = n
            /\ Cardinality(ResultDocs) = n
            /\ \A i \in 1..Len(results) :
                  /\ results[i][1] \in Candidates
                  /\ results[i][2] = ExhaustiveScore(results[i][1])
            /\ [i \in 1..Len(results) |-> results[i][2]] = SubSeq(BestScores(Candidates), 1, n)

FreshMemory == [cursors |-> <<>>, LIST_CACHE |-> InvertedListCache(DefaultCapacity)]

\* C3: mode 'bwand-or' returns the list that mode 'or' returns for the same
\* index, query and k: the same docIDs with the same scores in the same order.
C3_BlockMaxWandIsMaxScore ==
    Returned("bwand-or") =>
        results = run_query([query EXCEPT !.mode = "or"], FreshMemory, disk).results

\* C4: while the heap of daat_disjunctive_blockmax_wand holds fewer than k
\* entries its threshold is 0, so that the block upper bound is never below
\* the threshold and no block is skipped before k documents are collected.
C4_ThresholdZeroUntilFull ==
    (pc = "traversal" /\ query.mode = "bwand-or" /\ Len(engine.heap) < query.top_k) =>
        /\ engine.threshold = 0
        /\ ~(BlockUpperBound(cursors, lists) < engine.threshold)

InLexicon(term) == term \in DOMAIN disk.lexicon

\* C24: openList on a term absent from the lexicon returns None and leaves
\* the cursors and the cache's entries and their order as they were, and
\* run_query returns what it returns for the query without its absent terms:
\* [] when no term remains.
C24_LexiconMiss ==
    /\ \A term \in Terms \ DOMAIN disk.lexicon :
          LET opened == openList(term, [cursors |-> cursors, LIST_CACHE |-> LIST_CACHE], disk)
          IN  /\ opened.lp = None
              /\ opened.mem.cursors = cursors
              /\ opened.mem.LIST_CACHE.cache = LIST_CACHE.cache
    /\ pc = "done" =>
          /\ results = run_query([query EXCEPT !.terms = SelectSeq(query.terms, InLexicon)],
                                 FreshMemory, disk).results
          /\ PresentTerms = {} => results = <<>>

\* A query of an absent term and a present one has returned a document, and
\* the cache holds the cursor of the present term.
C24_Witness ==
    /\ pc = "done"
    /\ Len(query.terms) = 2
    /\ query.terms[1] \notin DOMAIN disk.lexicon
    /\ query.terms[2] \in DOMAIN disk.lexicon
    /\ results # <<>>
    /\ Len(LIST_CACHE.cache) = 1
    /\ LIST_CACHE.misses = 2

\* C25: the top-k heap of the running engine never holds more than k
\* entries; the list returned has at most k entries, no docID twice, and is
\* ordered by score descending and docID ascending; with no cursor to
\* traverse the result is [].
C25_TopK ==
    /\ pc = "traversal" => Len(engine.heap) <= query.top_k
    /\ pc = "done" =>
          /\ Len(results) <= query.top_k
          /\ Cardinality(ResultDocs) = Len(results)
          /\ \A i \in 2..Len(results) :
                \/ results[i - 1][2] > results[i][2]
                \/ (results[i - 1][2] = results[i][2] /\ results[i - 1][1] < results[i][1])
          /\ lists = <<>> => results = <<>>

\* A query over more than k candidate documents has returned k of them, two
\* of them with the same score.
C25_Witness ==
    /\ pc = "done"
    /\ Cardinality(Candidates) > query.top_k
    /\ Len(results) = query.top_k
    /\ \E i \in 2..Len(results) : results[i - 1][2] = results[i][2]

\* The query's terms, each at its first occurrence only.
DistinctTerms == FirstOccurrences(query.terms, {})

\* C27: the list the engine traverses holds one cursor for every distinct
\* query term of the lexicon and no cursor twice, and the query returns what
\* it returns with every repeated term written once.
C27_OneCursorPerTerm ==
    pc \in {"traversal", "done"} =>
        /\ Cardinality({lists[i] : i \in 1..Len(lists)}) = Len(lists)
        /\ {cursors[lists[i]].term : i \in 1..Len(lists)} = PresentTerms
        /\ pc = "done" =>
              results = run_query([query EXCEPT !.terms = DistinctTerms],
                                  FreshMemory, disk).results

\* ------------------------------------------------- claims on the codec

Decoded == pc = "codec" /\ codec.op = "decode"

\* C15: decoding everything that varbyte_encode(xs) returned gives xs back,
\* for the empty list and for lists that hold 0 as well.
C15_RoundTrip ==
    (Decoded /\ codec.stream = codec.encoded_bytes) => codec.decoded_numbers = codec.numbers

\* A list that holds 0 and a number of several bytes has gone round.
C15_Witness ==
    /\ Decoded
    /\ codec.stream = codec.encoded_bytes
    /\ \E i, j \in 1..Len(codec.numbers) : codec.numbers[i] = 0 /\ codec.numbers[j] >= 16384
    /\ codec.decoded_numbers = codec.numbers

\* The number of 7-bit groups of x, and its bytes group by group: group i is
\* bits 7(i-1)..7i-1, and every byte but the last has the high bit set.
RECURSIVE Groups(_)
Groups(x) == IF x < 128 THEN 1 ELSE 1 + Groups(x \div 128)

GroupBytes(x) ==
    [i \in 1..Groups(x) |-> ((x \div (128 ^ (i - 1))) % 128)
                              + (IF i < Groups(x) THEN 128 ELSE 0)]

RECURSIVE Concat(_)
Concat(seqs) == IF seqs = <<>> THEN <<>> ELSE Head(seqs) \o Concat(Tail(seqs))

\* C16: varbyte_encode emits, number by number, the 7-bit groups least
\* significant first with the high bit on every byte but the number's last
\* (0 is the single byte 00), and the edge-case list encodes to
\* 00 01 7F 80 01 FF 7F 80 80 01 FF FF 7F 80 80 80 01.
C16_EncodedBytes ==
    (pc = "codec" /\ codec.op # "") =>
        /\ codec.encoded_bytes =
              Concat([i \in 1..Len(codec.numbers) |-> GroupBytes(codec.numbers[i])])
        /\ \A i \in 1..Len(codec.numbers) :
              codec.numbers[i] = 0 => GroupBytes(codec.numbers[i]) = <<0>>
        /\ codec.numbers = EdgeCases =>
              codec.encoded_bytes = <<0, 1, 127, 128, 1, 255, 127, 128, 128, 1,
                                      255, 255, 127, 128, 128, 128, 1>>

\* The edge-case list has been encoded.
C16_Witness ==
    /\ pc = "codec"
    /\ codec.op = "encode"
    /\ codec.numbers = EdgeCases
    /\ Len(codec.encoded_bytes) = 17

\* The number of terminated integers of a stream: its bytes without high bit.
Terminated(stream) == Cardinality({i \in 1..Len(stream) : stream[i] < 128})

\* C17: decoding a stream that ends on a byte with the high bit set returns
\* the integers terminated before the cut, and nothing for the value that
\* was still being accumulated.
C17_TruncatedStream ==
    (Decoded /\ codec.stream # <<>> /\ Last(codec.stream) >= 128) =>
        codec.decoded_numbers = SubSeq(codec.numbers, 1, Terminated(codec.stream))

\* A stream cut inside its second integer: the first one is returned alone.
C17_Witness ==
    /\ Decoded
    /\ codec.stream # <<>>
    /\ Last(codec.stream) >= 128
    /\ Len(codec.numbers) >= 2
    /\ codec.decoded_numbers = <<codec.numbers[1]>>

\* ------------------------------------------------- claims on the cache

\* The keys of a cache, and the map from its keys to the stored objects.
Keys(cache) == {cache[i].term : i \in 1..Len(cache)}

Stored(cache) == [term \in Keys(cache) |-> cache[CacheIndex(cache, term)].lp]

\* The items of the cache without the one of term, in their order.
RECURSIVE Without(_, _)
Without(cache, term) ==
    IF cache = <<>> THEN <<>>
    ELSE IF Head(cache).term = term THEN Without(Tail(cache), term)
    ELSE <<Head(cache)>> \o Without(Tail(cache), term)

\* The key of the cache that was put or hit longest ago.
Oldest(cache) ==
    CHOOSE t \in Keys(cache) : \A o \in Keys(cache) : used.last[t] <= used.last[o]

\* C18: the cache is an LRU map.  A get that hits returns the stored object,
\* makes the key the most recently used and counts a hit; a get that misses
\* returns None, counts a miss and leaves contents and order alone; a put on
\* an existing key only makes it the most recently used; a put of a new key
\* into a full cache evicts exactly the key put or hit longest ago.  The
\* cache's order is the order of last use.
C18_LruMap ==
    (pc = "cache" /\ call.op # "") =>
        LET before == call.prior
            now == LIST_CACHE
            term == call.arg
            hit == term \in Keys(before.cache)
        IN  /\ \A i, j \in 1..Len(now.cache) :
                  i < j => used.last[now.cache[i].term] < used.last[now.cache[j].term]
            /\ (call.op = "get" /\ hit) =>
                  /\ call.returned = Stored(before.cache)[term]
                  /\ Stored(now.cache) = Stored(before.cache)
                  /\ Last(now.cache).term = term
                  /\ Without(now.cache, term) = Without(before.cache, term)
                  /\ now.hits = before.hits + 1 /\ now.misses = before.misses
            /\ (call.op = "get" /\ ~hit) =>
                  /\ call.returned = None
                  /\ now.cache = before.cache
                  /\ now.misses = before.misses + 1 /\ now.hits = before.hits
            /\ (call.op = "put" /\ hit) =>
                  /\ Stored(now.cache) = Stored(before.cache)
                  /\ Last(now.cache).term = term
                  /\ Without(now.cache, term) = Without(before.cache, term)
            /\ (call.op = "put" /\ ~hit /\ Len(before.cache) < before.capacity) =>
                  /\ Without(now.cache, term) = before.cache
                  /\ Last(now.cache).term = term
            /\ (call.op = "put" /\ ~hit /\ Len(before.cache) >= before.capacity) =>
                  /\ Keys(before.cache) \ Keys(now.cache) = {Oldest(before.cache)}
                  /\ Without(now.cache, term) =
                        Without(before.cache, Oldest(before.cache))
                  /\ Last(now.cache).term = term
            /\ call.op = "put" =>
                  now.hits = before.hits /\ now.misses = before.misses

\* After at least one hit, a put of a new key into a full cache of two keys
\* evicted the first of them and kept the other.
C18_Witness ==
    /\ pc = "cache"
    /\ call.op = "put"
    /\ Len(call.prior.cache) = 2
    /\ call.prior.capacity = 2
    /\ call.prior.hits >= 1
    /\ call.arg \notin Keys(call.prior.cache)
    /\ Keys(call.prior.cache) \ Keys(LIST_CACHE.cache) = {Head(call.prior.cache).term}
    /\ LIST_CACHE.cache[1].term = Last(call.prior.cache).term

\* C20: the cache never holds more entries than its capacity.
C20_CapacityBound ==
    pc = "cache" => Len(LIST_CACHE.cache) <= LIST_CACHE.capacity

\* A new key has been put into a full cache.
C20_Witness ==
    /\ pc = "cache"
    /\ call.op = "put"
    /\ Len(call.prior.cache) = call.prior.capacity
    /\ call.arg \notin Keys(call.prior.cache)
    /\ Len(LIST_CACHE.cache) = LIST_CACHE.capacity

\* -------------------------------------------------- claims on the session

\* The cursors whose index file handle is open, and those the cache holds.
OpenCursors == {lp \in 1..Len(cursors) : ~cursors[lp].file_closed}

CachedCursors == {LIST_CACHE.cache[i].lp : i \in 1..Len(LIST_CACHE.cache)}

\* C19: between run_query calls every cursor with an open file handle is held
\* in the cache, so that at most capacity handles are open: a cursor the
\* cache evicted has been closed by the time the query that ran returns.
C19_EvictedCursorsClosed ==
    pc \in {"ready", "done"} =>
        /\ OpenCursors \subseteq CachedCursors
        /\ Cardinality(OpenCursors) <= LIST_CACHE.capacity

\* ------------------------------------------- claims on the index writer

\* The docIDs stored for the term, block after block.
RECURSIVE StoredDocIds(_, _)
StoredDocIds(d, blocks) ==
    IF blocks = <<>> THEN <<>>
    ELSE DecodedBlock(d, Head(blocks))[1] \o StoredDocIds(d, Tail(blocks))

\* C23: whatever (term, docID) pairs the merged stream repeats, the posting
\* list stored for a term holds every docID of the term once, in strictly
\* increasing order, and df is the number of these docIDs.
C23_Deduplicated ==
    Indexed =>
        \A term \in DOMAIN disk.lexicon :
            LET e == disk.lexicon[term]
                posts == StreamPostings(merge_postings(chunk_files), term)
                stored == StoredDocIds(disk, e.blocks)
            IN  /\ {stored[i] : i \in 1..Len(stored)} = StreamDocs(posts)
                /\ \A i \in 2..Len(stored) : stored[i - 1] < stored[i]
                /\ e.df = Cardinality(StreamDocs(posts))

\* --------------------------------------------------- claims on the merger

ChunkFilesSorted == \A i \in 1..Len(chunk_files) : PostingsSorted(chunk_files[i])

\* C21: with every chunk file sorted by (term, docID), what the merger has
\* yielded is non-decreasing in (term, docID) at every moment, and for the
\* chunks {a 1 1, b 2 1} and {a 3 1, c 5 1} the whole stream is
\* a 1 1, a 3 1, b 2 1, c 5 1.
C21_MergeOrder ==
    (pc = "merging" /\ ChunkFilesSorted) =>
        /\ \A i \in 2..Len(merger.yielded) :
              KeyLeq(merger.yielded[i - 1], merger.yielded[i])
        /\ (chunk_files = ExampleChunks /\ merger.state = "returned") =>
              merger.yielded = <<(<<1, 1, 1>>), (<<1, 3, 1>>), (<<2, 2, 1>>), (<<3, 5, 1>>)>>

\* The merger has returned after yielding the four postings of the two
\* example chunks.
C21_Witness ==
    /\ pc = "merging"
    /\ chunk_files = ExampleChunks
    /\ merger.state = "returned"
    /\ Len(merger.yielded) = 4

\* C22: once the merger has exited - exhausted, failed on a line, or closed
\* by its consumer - none of the chunk files it opened is open.
C22_ChunkFilesClosed ==
    (pc = "merging" /\ merger.state \in {"returned", "raised", "closed"}) =>
        \A i \in DOMAIN merger.files_open : ~merger.files_open[i]

\* --------------------------------------------------- claims on the parser

\* C28: every chunk file written has lines 'term docID tf' with tf >= 1,
\* sorted by term and, within a term, by docID as a number.
C28_ChunksSorted ==
    pc = "parsing" =>
        \A c \in 1..Len(chunk_files) :
            /\ \A i \in 1..Len(chunk_files[c]) :
                  Len(chunk_files[c][i]) = 3 /\ chunk_files[c][i][3] >= 1
            /\ \A i \in 2..Len(chunk_files[c]) :
                  KeyLeq(chunk_files[c][i - 1], chunk_files[c][i])

\* The document with the larger docID came first in the corpus, and the one
\* chunk written holds both documents' postings of a term in docID order
\* and a posting with tf = 2.
C28_Witness ==
    /\ pc = "parsing"
    /\ parser.state = "returned"
    /\ Len(chunk_files) = 1
    /\ parser.dataset[1].kind = "doc"
    /\ parser.dataset[1].doc_id = 2
    /\ Len(chunk_files[1]) >= 3
    /\ chunk_files[1][1][1] = chunk_files[1][2][1]
    /\ chunk_files[1][1][2] < chunk_files[1][2][2]
    /\ \E i \in 1..Len(chunk_files[1]) : chunk_files[1][i][3] = 2

\* C29: no chunk file holds two lines with the same (term, docID), whatever
\* the corpus, and every document processed has put one posting per distinct
\* term into the buffer, with tf the number of the term's occurrences.
C29_NoDuplicatePostings ==
    pc = "parsing" =>
        /\ \A c \in 1..Len(chunk_files) :
              \A i, j \in 1..Len(chunk_files[c]) :
                  (i # j) => ~(/\ chunk_files[c][i][1] = chunk_files[c][j][1]
                               /\ chunk_files[c][i][2] = chunk_files[c][j][2])
        /\ \A doc \in {parser.dataset[i] : i \in 1..parser.line} :
              doc.kind = "doc" =>
                  LET posted == DocPostings(doc)
                      terms == {doc.text[i] : i \in 1..Len(doc.text)}
                  IN  /\ Len(posted) = Cardinality(terms)
                      /\ {posted[i][1] : i \in 1..Len(posted)} = terms
                      /\ \A i \in 1..Len(posted) :
                            /\ posted[i][2] = doc.doc_id
                            /\ posted[i][3] = Occurrences(doc.text, posted[i][1])

\* C30: no chunk file holds more than chunk_size postings, and the corpus
\* '1<TAB>the quick brown fox', '2<TAB>The quick blue fox' is written with
\* chunk_size = 4 as [blue 2 1, brown 1 1, fox 1 1, fox 2 1] and
\* [quick 1 1, quick 2 1, the 1 1, the 2 1].
C30_ChunkSize ==
    pc = "parsing" =>
        /\ \A c \in 1..Len(chunk_files) : Len(chunk_files[c]) <= parser.chunk_size
        /\ (/\ parser.dataset = ExampleRun.dataset
            /\ parser.chunk_size = ExampleRun.chunk_size
            /\ parser.state = "returned") =>
                chunk_files = << <<(<<1, 2, 1>>), (<<2, 1, 1>>), (<<3, 1, 1>>), (<<3, 2, 1>>)>>,
                                 <<(<<4, 1, 1>>), (<<4, 2, 1>>), (<<5, 1, 1>>), (<<5, 2, 1>>)>> >>

\* The lines of a dataset that are documents, in order.
RECURSIVE WellFormed(_)
WellFormed(dataset) ==
    IF dataset = <<>> THEN <<>>
    ELSE IF Head(dataset).kind = "doc" THEN <<Head(dataset)>> \o WellFormed(Tail(dataset))
    ELSE WellFormed(Tail(dataset))

\* The chunk files a run writes from p on when it skips every line that is
\* no document.
RECURSIVE SkippingRun(_, _)
SkippingRun(p, written) ==
    IF p.state = "flushing" \/ p.line >= Len(p.dataset)
    THEN IF p.postings # <<>> THEN Append(written, write_chunk(p.postings)) ELSE written
    ELSE LET line == p.dataset[p.line + 1]
             parsed == ParseDoc(p, line)
         IN  IF line.kind # "doc" THEN SkippingRun([p EXCEPT !.line = @ + 1], written)
             ELSE SkippingRun(parsed.parser,
                              IF parsed.flushed
                              THEN Append(written, write_chunk(p.postings \o DocPostings(line)))
                              ELSE written)

\* C31: run_parser never aborts on a malformed line - one without a TAB or
\* one whose docID is no integer - and when it returns it has written the
\* chunks it writes for the corpus without its malformed lines.
C31_MalformedSkipped ==
    pc = "parsing" =>
        /\ parser.state # "raised"
        /\ parser.state = "returned" =>
              chunk_files = SkippingRun(ParserStart(WellFormed(parser.dataset),
                                                    parser.chunk_size, parser.max_docs), <<>>)

\* How many times x stands in the sequence s.
CountIn(s, x) == Cardinality({i \in 1..Len(s) : s[i] = x})

\* a and b hold the same elements the same number of times.
SameMultiset(a, b) ==
    /\ Len(a) = Len(b)
    /\ \A i \in 1..Len(a) : CountIn(a, a[i]) = CountIn(b, a[i])

\* The documents a run processes: the well-formed lines, up to max_docs of
\* them when max_docs is set.
Processed(p) ==
    LET docs == WellFormed(p.dataset)
    IN  IF p.max_docs # 0 /\ Len(docs) > p.max_docs THEN SubSeq(docs, 1, p.max_docs)
        ELSE docs

\* C32: when run_parser has returned, the lines of chunk files 0, 1, ... are
\* together the postings of the documents processed, each as often as the
\* documents hold it, and the last chunk id used follows the others.
C32_AllPostingsWritten ==
    (pc = "parsing" /\ parser.state = "returned") =>
        LET docs == Processed(parser)
        IN  /\ SameMultiset(Concat(chunk_files),
                            Concat([i \in 1..Len(docs) |-> DocPostings(docs[i])]))
            /\ parser.doc_count = Len(docs)
            /\ Len(chunk_files) = parser.chunk_id + (IF parser.postings # <<>> THEN 1 ELSE 0)

\* The run wrote a full chunk, stopped at the max_docs limit before the end
\* of the corpus and flushed what was buffered to a last chunk.
C32_Witness ==
    /\ pc = "parsing"
    /\ parser.state = "returned"
    /\ parser.max_docs # 0
    /\ parser.doc_count = parser.max_docs
    /\ Len(WellFormed(parser.dataset)) > parser.max_docs
    /\ parser.chunk_id >= 1
    /\ parser.postings # <<>>
    /\ Len(chunk_files) = parser.chunk_id + 1

\* The (docID, frequency) pairs a cursor stands on from c on when it is moved
\* by nextGEQ(doc_id + 1) until it returns INF_DOCID, at most fuel of them.
RECURSIVE Visit(_, _)
Visit(c, fuel) ==
    IF c.doc_id = INF_DOCID \/ fuel = 0 THEN <<>>
    ELSE <<(<<c.doc_id, c.curr_block_freqs[c.curr_idx + 1]>>)>>
             \o Visit(nextGEQ(c, c.doc_id + 1, disk), fuel - 1)

\* The cursor after n calls of nextGEQ(doc_id + 1) from c on.
RECURSIVE Walked(_, _)
Walked(c, n) == IF n = 0 THEN c ELSE Walked(nextGEQ(c, c.doc_id + 1, disk), n - 1)

\* The postings of term 1 the index writer was given for a corpus.
WrittenPostings(corpus) ==
    [i \in 1..Len(corpus) |-> <<corpus[i].doc_id, Occurrences(corpus[i].text, 1)>>]

\* C33: a freshly opened cursor on the list written from (d_1, f_1) ..
\* (d_n, f_n) stands on d_1, and nextGEQ(doc_id + 1) called again and again
\* visits d_2 .. d_n with their frequencies and then returns INF_DOCID,
\* whatever the block size.
C33_RoundTrip ==
    pc = "cursor" =>
        \A ids \in (SUBSET CursorDocIds) \ {{}} :
            disk = run_indexer(run_parser(CursorCorpus(ids), CHUNK_SIZE), block_size) =>
                LET fresh == InvertedList(1, disk)
                    written == WrittenPostings(CursorCorpus(ids))
                IN  /\ fresh.doc_id = written[1][1]
                    /\ Visit(fresh, Len(written) + 1) = written
                    /\ Walked(fresh, Len(written)).doc_id = INF_DOCID

\* The cursor was walked by nextGEQ(doc_id + 1) over a list of three blocks
\* to its end: the last call left the last posting and returned INF_DOCID.
C33_Witness ==
    /\ pc = "cursor"
    /\ cursors[1].block_count = 3
    /\ cursors[1].df >= 4
    /\ cursors[1] = Walked(InvertedList(1, disk), cursors[1].df)
    /\ call.op = "nextGEQ"
    /\ call.arg = call.prior + 1
    /\ call.prior = Last(cursors[1].block_last_doc_ids)
    /\ call.returned = INF_DOCID
    /\ \E i \in 1..cursors[1].df : Visit(InvertedList(1, disk), cursors[1].df)[i][2] = 2

\* ------------------------------------------------ claims on the engines

\* The nextGEQ calls one of the engines' for loops makes, in order: each
\* with the cursor called, its argument and the doc_id the cursor had.  The
\* loop calls the cursors below k ("below"), every cursor ("all") or the
\* cursors standing on k - 1 ("at").
RECURSIVE CallsWhere(_, _, _, _, _)
CallsWhere(store, lps, k, cond, files) ==
    IF lps = <<>> THEN <<>>
    ELSE LET lp == Head(lps)
             called == CASE cond = "below" -> store[lp].doc_id < k
                         [] cond = "all" -> TRUE
                         [] cond = "at" -> store[lp].doc_id = k - 1
         IN  IF called
             THEN <<[lp |-> lp, k |-> k, prior |-> store[lp].doc_id]>>
                      \o CallsWhere([store EXCEPT ![lp] = nextGEQ(store[lp], k, files)],
                                    Tail(lps), k, cond, files)
             ELSE CallsWhere(store, Tail(lps), k, cond, files)

\* The nextGEQ calls of one iteration of an engine's while loop.
IterationCalls(mode, es, lps, files) ==
    CASE mode = "and" ->
            LET active_lists == ActiveLists(lps, es.cursors)
                target == SetMax(DocIdsOf(active_lists, es.cursors))
                moved == AdvanceBelow(es.cursors, active_lists, target, files)
                below == CallsWhere(es.cursors, active_lists, target, "below", files)
            IN  IF active_lists = <<>> THEN <<>>
                ELSE IF target >= INF_DOCID THEN <<>>
                ELSE IF \A i \in 1..Len(active_lists) : moved[active_lists[i]].doc_id = target
                THEN below \o CallsWhere(moved, active_lists, target + 1, "all", files)
                ELSE below
      [] mode = "or" ->
            LET current_doc == SetMin(DocIdsOf(lps, es.cursors))
            IN  IF current_doc >= INF_DOCID THEN <<>>
                ELSE CallsWhere(es.cursors, lps, current_doc + 1, "at", files)
      [] mode = "bwand-or" ->
            LET pivot_doc == SetMin(DocIdsOf(lps, es.cursors))
            IN  IF pivot_doc >= INF_DOCID THEN <<>>
                ELSE IF BlockUpperBound(es.cursors, lps) < es.threshold THEN <<>>
                ELSE CallsWhere(es.cursors, lps, pivot_doc + 1, "at", files)

\* lists holds no cursor twice.
DistinctCursors == \A i, j \in 1..Len(lists) : lists[i] = lists[j] => i = j

C34_Iteration ==
    (pc = "traversal" /\ pc' = "traversal" /\ ~engine.finished /\ DistinctCursors) =>
        LET calls == IterationCalls(query.mode, EngineState, lists, disk)
        IN  /\ \A i \in 1..Len(calls) :
                  calls[i].prior < INF_DOCID /\ calls[i].k > calls[i].prior
            /\ \A lp \in 1..Len(cursors) :
                  /\ cursors'[lp].doc_id >= cursors[lp].doc_id
                  /\ cursors[lp].doc_id = INF_DOCID => cursors'[lp] = cursors[lp]

\* C34: in an iteration of an engine over distinct cursors, every nextGEQ(k)
\* is called on a cursor that is not exhausted, with k above its doc_id; no
\* cursor's doc_id goes down, and an exhausted cursor is left as it is.
C34_ForwardCalls == [][C34_Iteration]_vars

\* An engine at work over two distinct cursors, one of them exhausted, the
\* other not, after it has called nextGEQ on both.
C34_Witness ==
    /\ pc = "traversal"
    /\ ~engine.finished
    /\ Len(lists) = 2
    /\ DistinctCursors
    /\ engine.heap # <<>>
    /\ cursors[lists[1]].doc_id = INF_DOCID
    /\ cursors[lists[2]].doc_id < INF_DOCID
    /\ cursors[lists[2]].curr_block_idx > 0

\* The corpora the engines are run to their end on: MaxDocs documents over
\* the terms 1 and 2.
EngineTexts == {<<1>>, <<2>>, <<1, 2>>, <<1, 1>>}

InitEngine ==
    /\ IndexerDone
    /\ block_size \in 1..MaxBlockSize
    /\ \E texts \in [1..MaxDocs -> EngineTexts] :
          disk = run_indexer(run_parser(MakeCorpus("dense", texts), CHUNK_SIZE), block_size)
    /\ cursors = <<>>
    /\ LIST_CACHE = InvertedListCache(DefaultCapacity)
    /\ query = NoQuery
    /\ lists = <<>>
    /\ engine = NoEngine
    /\ results = <<>>
    /\ call = NoCall
    /\ codec = NoCodec
    /\ used = NoUse
    /\ pc = "ready"

\* An engine stands in its while loop.
InLoop == pc = "traversal" /\ ~engine.finished

EngineStep == ConjunctiveStep \/ MaxScoreStep \/ BlockMaxWandStep

\* The process runs on: a loop that is not left takes its next iteration -
\* weak fairness of EngineStep, written with the loop's guard, which is when
\* an iteration can be taken - and an engine that has returned is followed
\* by run_query's closing of the lists.
SpecEngine ==
    /\ InitEngine
    /\ [][NextQuery]_vars
    /\ ([]<>(~InLoop) \/ []<><<EngineStep>>_vars)
    /\ WF_vars(FinishQuery)

\* The cursor has moved on: to a larger docID, to INF_DOCID or to a later
\* block.
Advanced(before, after) ==
    \/ after.doc_id > before.doc_id
    \/ after.doc_id = before.doc_id /\ after.curr_block_idx > before.curr_block_idx

\* An iteration leaves the loop, with every cursor exhausted, or moves one
\* cursor on and none back.
C35_Iteration ==
    (pc = "traversal" /\ pc' = "traversal" /\ ~engine.finished) =>
        IF engine'.finished
        THEN cursors' = cursors /\ \A i \in 1..Len(lists) : cursors[lists[i]].doc_id = INF_DOCID
        ELSE /\ \E i \in 1..Len(lists) : Advanced(cursors[lists[i]], cursors'[lists[i]])
             /\ \A lp \in 1..Len(cursors) : cursors'[lp].doc_id >= cursors[lp].doc_id

\* C35: every engine terminates: no iteration of its loop leaves the engine
\* as it was, each moves at least one cursor strictly on, the loop is left
\* when every cursor stands at
\* INF_DOCID, a loop that has begun is left, and run_query returns.
C35_Terminates ==
    /\ [](InLoop => Iteration(query.mode, EngineState, lists, query.top_k, disk) # EngineState)
    /\ [][C35_Iteration]_vars
    /\ InLoop ~> (pc = "traversal" /\ engine.finished)
    /\ (pc = "traversal") ~> (pc = "done")

\* The loop of an engine has been left after it ran over two lists of more
\* than one block and found results.
C35_Witness ==
    /\ pc = "traversal"
    /\ engine.finished
    /\ Len(lists) = 2
    /\ engine.heap # <<>>
    /\ \A i \in 1..2 : /\ cursors[lists[i]].doc_id = INF_DOCID
                       /\ cursors[lists[i]].block_count >= 2

\* ------------------------------------- claims on the cursor's position

\* C36: after construction and after every nextGEQ, advance_to_next_block
\* and reset call, a cursor with doc_id < INF_DOCID holds the decoded block
\* curr_block_idx, which is a block of the list; curr_idx is a position in
\* it, doc_id is the docID at that position, and curr_block_max() is the
\* block_max_score of the block that holds doc_id.
C36_PositionConsistent ==
    pc = "cursor" =>
        LET c == cursors[1]
        IN  c.doc_id < INF_DOCID =>
                /\ 0 <= c.curr_block_idx
                /\ c.curr_block_idx < c.block_count
                /\ c.curr_block_docIDs = DecodedBlock(disk, c.blocks[c.curr_block_idx + 1])[1]
                /\ c.curr_block_freqs = DecodedBlock(disk, c.blocks[c.curr_block_idx + 1])[2]
                /\ 0 <= c.curr_idx
                /\ c.curr_idx < Len(c.curr_block_docIDs)
                /\ c.doc_id = c.curr_block_docIDs[c.curr_idx + 1]
                /\ \A i \in 1..Len(c.blocks) :
                      (\E j \in 1..Len(DecodedBlock(disk, c.blocks[i])[1]) :
                           DecodedBlock(disk, c.blocks[i])[1][j] = c.doc_id)
                          => curr_block_max(c) = c.blocks[i].block_max_score

\* ------------------------------------ claims on the block maximum's inputs

\* run_indexer's loop stands before a posting of a new term: this iteration
\* calls write_postings for the term collected so far.
FlushesTerm ==
    /\ pc = "indexing"
    /\ generator # <<>>
    /\ indexer.current_term # NoTerm
    /\ Head(generator)[1] # indexer.current_term

C37_Flush ==
    FlushesTerm =>
        \A i \in 1..Len(indexer.doc_ids) :
            DocLen(indexer'.page_table, indexer.doc_ids[i])
                = StreamLength(merge_postings(chunk_files), indexer.doc_ids[i])

\* C37: the page table write_postings is called with holds, for every
\* posting (d, f) of the term it writes, d's complete length: the sum of tf
\* over all of d's terms.
C37_CompleteLengths == [][C37_Flush]_vars

\* ------------------------------------------- run_query, term by term

\* The queries: more distinct terms than the cache holds, the same with the
\* first term once more at the end, and short queries for the terms that
\* were evicted and for those that were kept.
HandleQueries ==
    {SubSeq(SessionText, 1, DefaultCapacity + 1),
     SubSeq(SessionText, 1, DefaultCapacity + 1) \o <<1>>,
     <<1>>, <<DefaultCapacity + 1, 2>>}

InitHandles ==
    /\ IndexerDone
    /\ block_size = BLOCK_SIZE
    /\ disk = run_indexer(run_parser(MakeCorpus("dense", <<SessionText>>), CHUNK_SIZE),
                          block_size)
    /\ cursors = <<>>
    /\ LIST_CACHE = InvertedListCache(DefaultCapacity)
    /\ query = NoQuery
    /\ lists = <<>>
    /\ engine = NoEngine
    /\ results = <<>>
    /\ call = NoCall
    /\ codec = NoCodec
    /\ used = NoUse
    /\ pc = "ready"

\* run_query is called: the query is tokenized, and no list is open yet.
BeginQuery ==
    /\ pc \in {"ready", "done"}
    /\ used.calls < MaxQueries
    /\ \E terms \in HandleQueries, mode \in Modes :
          query' = [terms |-> terms, mode |-> mode, top_k |-> MaxK]
    /\ lists' = <<>>
    /\ engine' = NoEngine
    /\ results' = <<>>
    /\ call' = NoCall
    /\ used' = [used EXCEPT !.calls = @ + 1]
    /\ pc' = "opening"
    /\ UNCHANGED <<indexerVars, disk, cursors, LIST_CACHE, codec>>

\* One iteration of the loop over the query terms: call.arg counts the terms
\* opened, call.returned is what openList returned for the last of them.
OpenTerm ==
    /\ pc = "opening"
    /\ call.arg < Len(query.terms)
    /\ LET opened == openList(query.terms[call.arg + 1],
                              [cursors |-> cursors, LIST_CACHE |-> LIST_CACHE], disk)
           lp == opened.lp
       IN  /\ cursors' = opened.mem.cursors
           /\ LIST_CACHE' = opened.mem.LIST_CACHE
           /\ lists' = IF lp # None /\ opened.mem.cursors[lp].doc_id < INF_DOCID
                       THEN Append(lists, lp) ELSE lists
           /\ call' = [op |-> "openList", arg |-> call.arg + 1, prior |-> 0, returned |-> lp]
    /\ UNCHANGED <<indexerVars, disk, query, engine, results, codec, used, pc>>

\* Every term is opened: with no list run_query returns [], otherwise the
\* engine sorts lists and starts its loop.
StartTraversal ==
    /\ pc = "opening"
    /\ call.arg = Len(query.terms)
    /\ IF lists = <<>>
       THEN /\ lists' = lists
            /\ pc' = "done"
       ELSE /\ lists' = SortForMode(query.mode, lists, cursors)
            /\ pc' = "traversal"
    /\ UNCHANGED <<indexerVars, disk, cursors, LIST_CACHE, query, engine, results, call,
                   codec, used>>

NextHandles ==
    \/ BeginQuery
    \/ OpenTerm
    \/ StartTraversal
    \/ ConjunctiveStep
    \/ MaxScoreStep
    \/ BlockMaxWandStep
    \/ FinishQuery

SpecHandles == InitHandles /\ [][NextHandles]_vars

\* C38: no cursor held in LIST_CACHE has a closed file handle, whatever
\* queries were run - closeList closes only cursors that are not cached, and
\* no closed cursor is put into the cache - so that the cursor a cache hit
\* returns can load blocks.
C38_CachedCursorsOpen ==
    /\ \A lp \in CachedCursors : ~cursors[lp].file_closed
    /\ (pc = "opening" /\ call.op = "openList" /\ call.returned # None) =>
           ~cursors[call.returned].file_closed

\* A query of more terms than the cache holds has closed the cursors that
\* were evicted while it ran, and a later query hits the full cache.
C38_Witness ==
    /\ pc = "opening"
    /\ used.calls >= 2
    /\ \E lp \in 1..Len(cursors) : cursors[lp].file_closed
    /\ Len(LIST_CACHE.cache) = DefaultCapacity
    /\ call.op = "openList"
    /\ call.returned \in CachedCursors
    /\ call.returned < Len(cursors)
    /\ LIST_CACHE.hits >= 1

\* ------------------------------------------- claims on the merge's output

\* Every chunk file is one run_parser wrote: not empty, its lines postings
\* in (term, docID) order.
ParserChunks ==
    /\ ChunkFilesSorted
    /\ \A c \in 1..Len(chunk_files) : chunk_files[c] # <<>>

C39_Merging ==
    (pc = "merging" /\ ParserChunks /\ merger.state # "created") =>
        /\ merger.state # "raised"
        /\ \A i \in 1..Len(chunk_files) :
              Cardinality({e \in merger.min_heap : e.file_idx = i}) <= 1
        /\ \A e \in merger.min_heap : e.file_idx \in 1..Len(chunk_files)
        /\ \A i \in 1..Len(merger.yielded) :
              CountIn(merger.yielded, merger.yielded[i])
                  <= CountIn(Concat(chunk_files), merger.yielded[i])
        /\ merger.state = "returned" =>
              /\ merger.min_heap = {}
              /\ SameMultiset(merger.yielded, Concat(chunk_files))

\* A next() that does not end the generator yields one more line.
C39_Next ==
    (pc = "merging" /\ ParserChunks /\ merger'.state = "suspended") =>
        Len(merger'.yielded) = Len(merger.yielded) + 1

\* The for loop over the generator runs on: it calls next() as long as the
\* generator has not ended, unless the consumer stops.
SpecMergeLoop == SpecMerge /\ WF_vars(FirstNext) /\ WF_vars(LaterNext)

\* C39: over chunk files written by run_parser, merge_postings yields every
\* line of every chunk exactly once and then returns with its heap empty -
\* every next() yields one more line until then, and the generator returns
\* unless its consumer stops - and its heap never holds two records of one
\* chunk file.
C39_EveryLineOnce ==
    /\ [](C39_Merging)
    /\ [][C39_Next]_vars
    /\ (pc = "merging" /\ ParserChunks) ~> (merger.state \in {"returned", "closed"})

\* The merger has returned after merging two chunks of two lines each that
\* share a line.
C39_Witness ==
    /\ pc = "merging"
    /\ ParserChunks
    /\ Len(chunk_files) = 2
    /\ Len(chunk_files[1]) = 2
    /\ Len(chunk_files[2]) = 2
    /\ chunk_files[1][2] = chunk_files[2][1]
    /\ merger.state = "returned"
    /\ Len(merger.yielded) = 4

====
